---- MODULE Spec2Model ----
(***************************************************************************)
(* Model of the vivere backend: the speech bridge and the /ws/audio        *)
(* handler (app/speech_recognizer.py, app/routes.py), the render-server    *)
(* client and the /ws/video status socket (app/comfyui_client.py,          *)
(* app/routes.py) and the cloud video jobs (app/gemini.py).                *)
(***************************************************************************)
EXTENDS Integers, Sequences, FiniteSets, TLC

\* ------------------------------------------------------------------------
\* Bounds of the model
\* ------------------------------------------------------------------------
MaxAudioMsgs == 3
MaxResponses == 2
MaxEvents == 3
MaxClock == 2
MaxCalls == 3
MaxPolls == 2
MaxFeedEvents == 2
MaxChecks == 2
MaxRequests == 2
MaxListLen == 4
MaxStep == 3
MaxElapsed == 7325
MaxMessages == 2
MaxTextLen == 6
MaxConfigCalls == 3
MaxNodeEvents == 5
MaxClientRequests == 3

VARIABLES
    \* ---- speech bridge and /ws/audio ----
    audio_put,      \* every item ever put on audio_q, in order
    audio_rd,       \* number of items already taken from audio_q
    result_put,     \* every event ever put on result_q, in order
    result_rd,      \* number of events already taken from result_q
    recog_pc,       \* position of gcp_streaming_recognize
    recog_failed,   \* the recognition session has raised
    gen_pc,         \* position of requests_generator
    forwarded,      \* chunks yielded to the recognition session
    n_resp,         \* responses produced by the session so far
    fwd_pc,         \* position of forward_results
    h_pc,           \* position of ws_audio
    n_msgs,         \* client messages received by ws_audio
    client_gone,    \* the client of /ws/audio has disconnected
    audio_frames,   \* transcript frames sent to the client
    \* ---- render-server client (ComfyUIClient) ----
    pending_tasks,  \* self.pending_tasks: prompt id -> job entry
    srv,            \* the render server's queue and history, per prompt id
    workflow_file,  \* the workflow template file: "ok", or "raises" when unreadable
    now,            \* wall clock, in seconds
    n_events,       \* push events received so far
    evented,        \* prompt ids for which a push event was handled
    last_event,     \* the latest push event when it was a progress event, and what it met
    origin,         \* how each tracked prompt id entered pending_tasks
    n_calls,        \* get_status calls made by request handlers
    last_call,      \* the latest get_status call and its result
    n_requests,     \* HTTP requests served so far
    last_request,   \* the latest HTTP request, what it met and its response
    fn_call,        \* a call of a helper function: its name, argument and result
    req,            \* a request handler on its worker thread: position and locals
    feed,           \* the event-listener thread inside _handle_execution_start: position and locals
    comfyui_client, \* routes._comfyui_client: None, or the number of the client it holds
    n_clients,      \* ComfyUIClient objects constructed so far
    ws_waiting,     \* event-feed threads started whose run_forever has not connected yet
    ws_open,        \* event-feed connections that are open
    n_connections,  \* event-feed connections opened so far
    clients_used,   \* the client each request obtained from get_comfyui_client, in order
    \* ---- configuration ----
    environ,        \* os.environ: variable name -> value, or None when unset
    config_cache,   \* the record kept by lru_cache for get_config, or None
    n_config,       \* get_config calls made so far
    config_ret,     \* the outcome of the latest get_config call
    \* ---- /ws/video/{job_id} ----
    v_pc,           \* position of ws_video_status
    v_last_status,  \* last_status
    v_last_progress,\* last_progress
    v_frames,       \* frames sent on the status socket
    v_gone,         \* the client of the status socket has disconnected
    v_polls,        \* turns of the monitoring loop so far
    v_saw_terminal, \* a get_status of the handler reported completed or error
    v_initial,      \* the status the handler read when the socket was opened
    \* ---- cloud video jobs (gemini) ----
    job_statuses,   \* job_statuses: operation id -> job entry
    disk,           \* generated_videos/<id>.mp4: absent, partial or complete
    op_done,        \* the remote operation is done
    worker,         \* position and local operation snapshot of each worker
    n_checks,       \* check_for_video_completion calls so far
    checks          \* those calls, with their results

audioVars == <<audio_put, audio_rd, result_put, result_rd, recog_pc,
               recog_failed, gen_pc, forwarded, n_resp, fwd_pc, h_pc,
               n_msgs, client_gone, audio_frames>>

comfyVars == <<pending_tasks, srv, workflow_file, now, n_events, evented, last_event, origin>>

configVars == <<environ, config_cache, n_config, config_ret>>
clientVars == <<comfyui_client, n_clients, ws_waiting, ws_open, n_connections, clients_used>>

callVars == <<n_calls, last_call, n_requests, last_request, fn_call, configVars, feed, clientVars, req>>

videoVars == <<v_pc, v_last_status, v_last_progress, v_frames, v_gone, v_polls,
               v_saw_terminal, v_initial>>

cloudVars == <<job_statuses, disk, op_done, worker, n_checks, checks>>

nonAudioVars == <<comfyVars, callVars, videoVars, cloudVars>>

vars == <<audioVars, comfyVars, callVars, videoVars, cloudVars>>

\* ------------------------------------------------------------------------
\* Speech bridge: gcp_streaming_recognize
\* ------------------------------------------------------------------------
NoneChunk == "None"
EmptyChunk == "empty"
Chunks == {"pcm1", "pcm2"}

Sentinel == <<"None", TRUE>>
ErrorTranscript == <<"[recognizer error]", TRUE>>

\* A response of the session: its first result's first alternative, or the
\* reason it carries none.
Responses == {[results |-> FALSE, alternatives |-> FALSE, transcript |-> "", is_final |-> FALSE],
              [results |-> TRUE, alternatives |-> FALSE, transcript |-> "", is_final |-> FALSE],
              [results |-> TRUE, alternatives |-> TRUE, transcript |-> "halo", is_final |-> FALSE],
              [results |-> TRUE, alternatives |-> TRUE, transcript |-> "halo", is_final |-> TRUE]}

AudioInit ==
    /\ audio_put = <<>>
    /\ audio_rd = 0
    /\ result_put = <<>>
    /\ result_rd = 0
    /\ recog_pc = "open"
    /\ recog_failed = FALSE
    /\ gen_pc = "idle"
    /\ forwarded = <<>>
    /\ n_resp = 0
    /\ fwd_pc = "get"
    /\ h_pc = "recv"
    /\ n_msgs = 0
    /\ client_gone = FALSE
    /\ audio_frames = <<>>

\* speech_client.streaming_recognize(...): the call opens the stream and is
\* made outside the try block; an exception here leaves the function.
RecogOpen ==
    /\ recog_pc = "open"
    /\ \E ok \in BOOLEAN :
         IF ok
         THEN /\ recog_pc' = "iter"
              /\ gen_pc' = "running"
              /\ UNCHANGED recog_failed
         ELSE /\ recog_pc' = "raised"
              /\ recog_failed' = TRUE
              /\ UNCHANGED gen_pc
    /\ UNCHANGED <<audio_put, audio_rd, result_put, result_rd, forwarded,
                   n_resp, fwd_pc, h_pc, n_msgs, client_gone, audio_frames>>
    /\ UNCHANGED nonAudioVars

\* A requests_generator that skips the sentinel as it skips an empty chunk.
GenStepPastSentinel ==
    /\ gen_pc = "running"
    /\ audio_rd < Len(audio_put)
    /\ audio_rd' = audio_rd + 1
    /\ LET chunk == audio_put[audio_rd + 1] IN
         IF chunk = NoneChunk \/ chunk = EmptyChunk
         THEN UNCHANGED <<gen_pc, forwarded>>
         ELSE forwarded' = Append(forwarded, chunk) /\ UNCHANGED gen_pc
    /\ UNCHANGED <<audio_put, result_put, result_rd, recog_pc, recog_failed,
                   n_resp, fwd_pc, h_pc, n_msgs, client_gone, audio_frames>>
    /\ UNCHANGED nonAudioVars

\* requests_generator: one turn of its loop, driven by the session.
GenStep ==
    /\ gen_pc = "running"
    /\ audio_rd < Len(audio_put)
    /\ audio_rd' = audio_rd + 1
    /\ LET chunk == audio_put[audio_rd + 1] IN
         IF chunk = NoneChunk
         THEN gen_pc' = "stopped" /\ UNCHANGED forwarded
         ELSE IF chunk = EmptyChunk
              THEN UNCHANGED <<gen_pc, forwarded>>
              ELSE forwarded' = Append(forwarded, chunk) /\ UNCHANGED gen_pc
    /\ UNCHANGED <<audio_put, result_put, result_rd, recog_pc, recog_failed,
                   n_resp, fwd_pc, h_pc, n_msgs, client_gone, audio_frames>>
    /\ UNCHANGED nonAudioVars

\* for response in responses_iterator: one response.
RecogResponse ==
    /\ recog_pc = "iter"
    /\ n_resp < MaxResponses
    /\ n_resp' = n_resp + 1
    /\ \E r \in Responses :
         IF r.results /\ r.alternatives
         THEN result_put' = Append(result_put, <<r.transcript, r.is_final>>)
         ELSE UNCHANGED result_put
    /\ UNCHANGED <<audio_put, audio_rd, result_rd, recog_pc, recog_failed,
                   gen_pc, forwarded, fwd_pc, h_pc, n_msgs, client_gone,
                   audio_frames>>
    /\ UNCHANGED nonAudioVars

\* The response stream ends normally, after the request stream was closed.
RecogStreamEnd ==
    /\ recog_pc = "iter"
    /\ gen_pc = "stopped"
    /\ recog_pc' = "finally"
    /\ UNCHANGED <<audio_put, audio_rd, result_put, result_rd, recog_failed,
                   gen_pc, forwarded, n_resp, fwd_pc, h_pc, n_msgs,
                   client_gone, audio_frames>>
    /\ UNCHANGED nonAudioVars

\* The response stream raises: the except block puts the error transcript.
RecogStreamError ==
    /\ recog_pc = "iter"
    /\ recog_failed' = TRUE
    /\ result_put' = Append(result_put, ErrorTranscript)
    /\ recog_pc' = "finally"
    /\ UNCHANGED <<audio_put, audio_rd, result_rd, gen_pc, forwarded, n_resp,
                   fwd_pc, h_pc, n_msgs, client_gone, audio_frames>>
    /\ UNCHANGED nonAudioVars

\* finally: result_q.put((None, True)).
RecogFinally ==
    /\ recog_pc = "finally"
    /\ result_put' = Append(result_put, Sentinel)
    /\ recog_pc' = "done"
    /\ UNCHANGED <<audio_put, audio_rd, result_rd, recog_failed, gen_pc,
                   forwarded, n_resp, fwd_pc, h_pc, n_msgs, client_gone,
                   audio_frames>>
    /\ UNCHANGED nonAudioVars

RecogEnded == recog_pc \in {"done", "raised"}

\* ------------------------------------------------------------------------
\* /ws/audio: forward_results and the receive loop
\* ------------------------------------------------------------------------
\* A forward_results that sends the event before it looks for the sentinel.
ForwardStepSendFirst ==
    /\ fwd_pc = "get"
    /\ result_rd < Len(result_put)
    /\ result_rd' = result_rd + 1
    /\ LET ev == result_put[result_rd + 1] IN
         IF client_gone
         THEN fwd_pc' = "done" /\ UNCHANGED audio_frames
         ELSE /\ audio_frames' = Append(audio_frames,
                                   [type |-> "transcript", final |-> ev[2], text |-> ev[1]])
              /\ fwd_pc' = IF ev[1] = "None" THEN "done" ELSE fwd_pc
    /\ UNCHANGED <<audio_put, audio_rd, result_put, recog_pc, recog_failed,
                   gen_pc, forwarded, n_resp, h_pc, n_msgs, client_gone>>
    /\ UNCHANGED nonAudioVars

\* forward_results: take one event; stop on the sentinel or on a failed send.
ForwardStep ==
    /\ fwd_pc = "get"
    /\ result_rd < Len(result_put)
    /\ result_rd' = result_rd + 1
    /\ LET ev == result_put[result_rd + 1] IN
         IF ev[1] = "None"
         THEN fwd_pc' = "done" /\ UNCHANGED audio_frames
         ELSE IF client_gone
              THEN fwd_pc' = "done" /\ UNCHANGED audio_frames
              ELSE /\ audio_frames' = Append(audio_frames,
                                        [type |-> "transcript", final |-> ev[2], text |-> ev[1]])
                   /\ UNCHANGED fwd_pc
    /\ UNCHANGED <<audio_put, audio_rd, result_put, recog_pc, recog_failed,
                   gen_pc, forwarded, n_resp, h_pc, n_msgs, client_gone>>
    /\ UNCHANGED nonAudioVars

ClientMsgs == {[type |-> "bytes", data |-> c] : c \in Chunks \cup {EmptyChunk}}
              \cup {[type |-> "text", data |-> d] : d \in {"stop", "other", "notjson"}}

\* One message of the receive loop.
AudioReceive ==
    /\ h_pc = "recv"
    /\ ~client_gone
    /\ n_msgs < MaxAudioMsgs
    /\ n_msgs' = n_msgs + 1
    /\ \E m \in ClientMsgs :
         IF m.type = "bytes"
         THEN audio_put' = Append(audio_put, m.data) /\ UNCHANGED h_pc
         ELSE IF m.data = "notjson"
              THEN h_pc' = "finally" /\ UNCHANGED audio_put
              ELSE IF m.data = "stop"
                   THEN audio_put' = Append(audio_put, NoneChunk) /\ UNCHANGED h_pc
                   ELSE UNCHANGED <<audio_put, h_pc>>
    /\ UNCHANGED <<audio_rd, result_put, result_rd, recog_pc, recog_failed,
                   gen_pc, forwarded, n_resp, fwd_pc, client_gone, audio_frames>>
    /\ UNCHANGED nonAudioVars

\* The client goes away: receive() returns websocket.disconnect.
AudioDisconnect ==
    /\ h_pc = "recv"
    /\ ~client_gone
    /\ client_gone' = TRUE
    /\ h_pc' = "finally"
    /\ UNCHANGED <<audio_put, audio_rd, result_put, result_rd, recog_pc,
                   recog_failed, gen_pc, forwarded, n_resp, fwd_pc, n_msgs,
                   audio_frames>>
    /\ UNCHANGED nonAudioVars

\* finally: audio_q.put(None), then await recog_future.
AudioFinallyPut ==
    /\ h_pc = "finally"
    /\ audio_put' = Append(audio_put, NoneChunk)
    /\ h_pc' = "await_recog"
    /\ UNCHANGED <<audio_rd, result_put, result_rd, recog_pc, recog_failed,
                   gen_pc, forwarded, n_resp, fwd_pc, n_msgs, client_gone,
                   audio_frames>>
    /\ UNCHANGED nonAudioVars

\* await recog_future completes (an exception of the recognizer is caught).
AudioAwaitRecog ==
    /\ h_pc = "await_recog"
    /\ RecogEnded
    /\ h_pc' = "await_fwd"
    /\ UNCHANGED <<audio_put, audio_rd, result_put, result_rd, recog_pc,
                   recog_failed, gen_pc, forwarded, n_resp, fwd_pc, n_msgs,
                   client_gone, audio_frames>>
    /\ UNCHANGED nonAudioVars

\* await forward_task completes.
AudioAwaitForward ==
    /\ h_pc = "await_fwd"
    /\ fwd_pc = "done"
    /\ h_pc' = "returned"
    /\ UNCHANGED <<audio_put, audio_rd, result_put, result_rd, recog_pc,
                   recog_failed, gen_pc, forwarded, n_resp, fwd_pc, n_msgs,
                   client_gone, audio_frames>>
    /\ UNCHANGED nonAudioVars


\* ------------------------------------------------------------------------
\* Render-server client: ComfyUIClient
\* ------------------------------------------------------------------------
SAVE_VIDEO_NODE_ID == "108"
LOAD_IMAGE_NODE_ID == "97"
DEFAULT_TOTAL_NODES == 20

PromptIds == {"p1"}
NoPromptId == "None"

\* An optional value: None is the empty sequence, a present value v is <<v>>.
None == <<>>
Some(v) == <<v>>
NoneStr == "None"

\* dict.get(key, default)
Get(rec, key, default) == IF key \in DOMAIN rec THEN rec[key] ELSE default

\* The workflow template on disk: its node ids.
WorkflowNodeIds == {LOAD_IMAGE_NODE_ID, SAVE_VIDEO_NODE_ID}

\* _load_workflow_template either returns the template or raises.
TemplateOutcomes == {"ok", "raises"}

\* _count_workflow_nodes / _get_workflow_node_ids
CountWorkflowNodes(workflow) == Cardinality(workflow)

\* Output of one node, as the server reports it: absent, a dict with an
\* 'images' list, a dict without that key, or a bare list.
NoNodeOutput == [shape |-> "absent", items |-> <<>>]
VideoFile == [filename |-> "clip.mp4", subfolder |-> "video", type |-> "output"]
NodeOutputs == {[shape |-> "dict_images", items |-> <<VideoFile>>],
                [shape |-> "dict_images", items |-> <<>>],
                [shape |-> "list", items |-> <<VideoFile>>]}

\* An outputs map: node id -> node output (NoNodeOutput: key not present).
NoOutputs == [n \in WorkflowNodeIds |-> NoNodeOutput]
OutputsChoices == {NoOutputs}
                  \cup {[NoOutputs EXCEPT ![SAVE_VIDEO_NODE_ID] = o] : o \in NodeOutputs}
                  \cup {[NoOutputs EXCEPT ![LOAD_IMAGE_NODE_ID] =
                                      [shape |-> "dict_images", items |-> <<VideoFile>>]]}

\* The outputs a finished prompt has in the server's history.
HistoryOutputs == {NoOutputs}
                  \cup {[NoOutputs EXCEPT ![SAVE_VIDEO_NODE_ID] = o] :
                           o \in {[shape |-> "dict_images", items |-> <<VideoFile>>],
                                  [shape |-> "dict_images", items |-> <<>>]}}

OutputsEmpty(outputs) == \A n \in DOMAIN outputs : outputs[n] = NoNodeOutput

\* _extract_video_info: the descriptor of the first file of node 108, or None.
ExtractVideoInfo(outputs) ==
    IF outputs[SAVE_VIDEO_NODE_ID] = NoNodeOutput
    THEN None
    ELSE LET video_info == outputs[SAVE_VIDEO_NODE_ID] IN
         IF video_info.shape = "dict_images"
         THEN IF Len(video_info.items) > 0
              THEN Some([video_filename |-> video_info.items[1].filename,
                         video_subfolder |-> video_info.items[1].subfolder,
                         video_type |-> video_info.items[1].type])
              ELSE None
         ELSE IF video_info.shape = "list" /\ Len(video_info.items) > 0
              THEN Some([video_filename |-> video_info.items[1].filename,
                         video_subfolder |-> video_info.items[1].subfolder,
                         video_type |-> video_info.items[1].type])
              ELSE None

\* status.messages of a history entry: [type, {timestamp}] pairs; timestamps
\* are milliseconds.
StartTs == 1000
EndTs == 4000
MessagesChoices == {<<[type |-> "execution_start", timestamp |-> Some(StartTs)]>>,
                    <<[type |-> "execution_start", timestamp |-> Some(StartTs)],
                      [type |-> "execution_success", timestamp |-> Some(EndTs)]>>}

RECURSIVE LastTimestamp(_, _, _)
LastTimestamp(messages, msg_type, acc) ==
    IF messages = <<>> THEN acc
    ELSE LastTimestamp(Tail(messages), msg_type,
                       IF messages[1].type = msg_type THEN messages[1].timestamp ELSE acc)

\* _extract_duration_from_history: None, or the duration; the value is kept
\* in thousandths of a second (duration_ms / 1000.0 seconds).
ExtractDurationFromHistory(job_data) ==
    LET start_time == LastTimestamp(job_data.messages, "execution_start", None)
        end_time == LastTimestamp(job_data.messages, "execution_success", None)
    IN IF start_time # None /\ start_time[1] # 0 /\ end_time # None /\ end_time[1] # 0
       THEN Some([thousandths |-> end_time[1] - start_time[1]])
       ELSE None

\* A _format_elapsed_time that always shows the seconds after the hours.
FormatElapsedTimeAllParts(elapsed_seconds) ==
    IF elapsed_seconds < 60
    THEN <<[n |-> elapsed_seconds, unit |-> "s"]>>
    ELSE LET minutes == elapsed_seconds \div 60
             seconds == elapsed_seconds % 60
         IN IF minutes < 60
            THEN IF seconds > 0
                 THEN <<[n |-> minutes, unit |-> "m"], [n |-> seconds, unit |-> "s"]>>
                 ELSE <<[n |-> minutes, unit |-> "m"]>>
            ELSE <<[n |-> minutes \div 60, unit |-> "h"]>>
                 \o (IF minutes % 60 > 0 THEN <<[n |-> minutes % 60, unit |-> "m"]>> ELSE <<>>)
                 \o <<[n |-> seconds, unit |-> "s"]>>

\* _format_elapsed_time: the parts of the rendered string, e.g. "1h 5s" is
\* <<[n |-> 1, unit |-> "h"], [n |-> 5, unit |-> "s"]>>.
FormatElapsedTime(elapsed_seconds) ==
    IF elapsed_seconds < 60
    THEN <<[n |-> elapsed_seconds, unit |-> "s"]>>
    ELSE LET minutes == elapsed_seconds \div 60
             seconds == elapsed_seconds % 60
         IN IF minutes < 60
            THEN IF seconds > 0
                 THEN <<[n |-> minutes, unit |-> "m"], [n |-> seconds, unit |-> "s"]>>
                 ELSE <<[n |-> minutes, unit |-> "m"]>>
            ELSE <<[n |-> minutes \div 60, unit |-> "h"]>>
                 \o (IF minutes % 60 > 0 THEN <<[n |-> minutes % 60, unit |-> "m"]>> ELSE <<>>)
                 \o (IF seconds > 0 THEN <<[n |-> seconds, unit |-> "s"]>> ELSE <<>>)

\* The render server's view of one prompt id.
SrvAbsent == [where |-> "absent", outputs |-> NoOutputs, messages |-> <<>>]
SrvPending == [where |-> "pending", outputs |-> NoOutputs, messages |-> <<>>]
SrvRunning == [where |-> "running", outputs |-> NoOutputs, messages |-> <<>>]
SrvHistory(outputs, messages) == [where |-> "history", outputs |-> outputs, messages |-> messages]

\* get_queue: the server's lists of ids, or empty lists when the request fails.
GetQueue(server, ok) ==
    IF ok
    THEN [queue_running |-> {id \in DOMAIN server : server[id].where = "running"},
          queue_pending |-> {id \in DOMAIN server : server[id].where = "pending"}]
    ELSE [queue_running |-> {}, queue_pending |-> {}]

\* A get_history that answers from the server whether or not the request
\* succeeded.
GetHistoryServes(server, ok) ==
    {id \in DOMAIN server : server[id].where = "history"}

\* get_history: the ids in history, or an empty map when the request fails.
GetHistory(server, ok) ==
    IF ok THEN {id \in DOMAIN server : server[id].where = "history"} ELSE {}

\* dict assignment tasks[id] = entry
Put(tasks, id, entry) ==
    [x \in (DOMAIN tasks) \cup {id} |-> IF x = id THEN entry ELSE tasks[x]]

\* _initialize_task_tracking
InitializeTaskTracking(tasks, prompt_id, template) ==
    LET total_nodes == IF template = "ok" THEN CountWorkflowNodes(WorkflowNodeIds)
                       ELSE DEFAULT_TOTAL_NODES
        workflow_node_ids == IF template = "ok" THEN WorkflowNodeIds ELSE {}
    IN IF prompt_id \notin DOMAIN tasks
       THEN Put(tasks, prompt_id,
                [status |-> "queued",
                 progress |-> 0,
                 total_nodes |-> total_nodes,
                 workflow_node_ids |-> workflow_node_ids,
                 completed_nodes |-> {},
                 current_node_id |-> NoneStr,
                 start_time |-> None,
                 start_timestamp |-> None,
                 output |-> NoOutputs,
                 video |-> None,
                 duration_seconds |-> None,
                 error |-> NoneStr,
                 prompt |-> NoneStr])
       ELSE tasks

\* The snapshot get_status builds from a tracked job entry.
TaskInfo(task_data, clock) ==
    [status |-> task_data.status,
     progress |-> task_data.progress,
     duration_seconds |-> task_data.duration_seconds,
     video |-> task_data.video,
     error |-> task_data.error,
     node_progress |-> IF task_data.total_nodes > 0
                       THEN Some(<<Cardinality(task_data.completed_nodes), task_data.total_nodes>>)
                       ELSE None,
     elapsed_time |-> IF task_data.start_time # None
                      THEN Some(FormatElapsedTime(clock - task_data.start_time[1]))
                      ELSE None]

NodeProgressOf(task_data) ==
    IF task_data.total_nodes > 0
    THEN Some(<<Cardinality(task_data.completed_nodes), task_data.total_nodes>>)
    ELSE None

\* A get_status that takes a history entry without video output for unknown.
GetStatusUnknownWithoutOutput(tasks, prompt_id, server, q_ok, h_ok, template, clock) ==
    IF prompt_id \in DOMAIN tasks
    THEN [result |-> TaskInfo(tasks[prompt_id], clock), tasks |-> tasks]
    ELSE LET queue_data == GetQueue(server, q_ok) IN
         IF prompt_id \in queue_data.queue_running
         THEN LET t1 == InitializeTaskTracking(tasks, prompt_id, template)
                  t2 == [t1 EXCEPT ![prompt_id].status = "running"]
              IN [result |-> [status |-> "running", progress |-> 0,
                              node_progress |-> NodeProgressOf(t2[prompt_id]),
                              elapsed_time |-> None],
                  tasks |-> t2]
         ELSE IF prompt_id \in queue_data.queue_pending
         THEN LET t1 == InitializeTaskTracking(tasks, prompt_id, template)
              IN [result |-> [status |-> "queued", progress |-> 0,
                              node_progress |-> NodeProgressOf(t1[prompt_id]),
                              elapsed_time |-> None],
                  tasks |-> t1]
         ELSE IF prompt_id \in GetHistory(server, h_ok)
         THEN LET job_data == server[prompt_id]
                  video_info == ExtractVideoInfo(job_data.outputs)
                  duration == ExtractDurationFromHistory(job_data)
              IN IF video_info # None
                 THEN [result |-> IF duration # None
                                  THEN [status |-> "completed", progress |-> 100,
                                        video |-> video_info, duration_seconds |-> duration]
                                  ELSE [status |-> "completed", progress |-> 100,
                                        video |-> video_info],
                       tasks |-> tasks]
                 ELSE [result |-> [status |-> "not_found"], tasks |-> tasks]
         ELSE [result |-> [status |-> "not_found"], tasks |-> tasks]

\* get_status: the result and the job map it leaves behind.  q_ok and h_ok
\* tell whether the queue and the history request succeed.
GetStatus(tasks, prompt_id, server, q_ok, h_ok, template, clock) ==
    IF prompt_id \in DOMAIN tasks
    THEN [result |-> TaskInfo(tasks[prompt_id], clock), tasks |-> tasks]
    ELSE LET queue_data == GetQueue(server, q_ok) IN
         IF prompt_id \in queue_data.queue_running
         THEN LET t1 == InitializeTaskTracking(tasks, prompt_id, template)
                  t2 == [t1 EXCEPT ![prompt_id].status = "running"]
              IN [result |-> [status |-> "running", progress |-> 0,
                              node_progress |-> NodeProgressOf(t2[prompt_id]),
                              elapsed_time |-> None],
                  tasks |-> t2]
         ELSE IF prompt_id \in queue_data.queue_pending
         THEN LET t1 == InitializeTaskTracking(tasks, prompt_id, template)
              IN [result |-> [status |-> "queued", progress |-> 0,
                              node_progress |-> NodeProgressOf(t1[prompt_id]),
                              elapsed_time |-> None],
                  tasks |-> t1]
         ELSE IF prompt_id \in GetHistory(server, h_ok)
         THEN LET job_data == server[prompt_id]
                  video_info == ExtractVideoInfo(job_data.outputs)
                  duration == ExtractDurationFromHistory(job_data)
              IN IF video_info # None
                 THEN [result |-> IF duration # None
                                  THEN [status |-> "completed", progress |-> 100,
                                        video |-> video_info, duration_seconds |-> duration]
                                  ELSE [status |-> "completed", progress |-> 100,
                                        video |-> video_info],
                       tasks |-> tasks]
                 ELSE [result |-> [status |-> "running", progress |-> 0], tasks |-> tasks]
         ELSE [result |-> [status |-> "not_found"], tasks |-> tasks]

\* A progress computed by rounding to the nearest integer, halves upwards.
ProgressPercentRounded(value, max_value) ==
    IF max_value > 0
    THEN (2 * value * 100 + max_value) \div (2 * max_value)
    ELSE 0

\* int((value / max_value) * 100) if max_value > 0 else 0: int() drops the
\* fraction, towards zero. For the step counts used here the floating-point
\* product has the same integer part as the exact quotient.
ProgressPercent(value, max_value) ==
    IF max_value > 0
    THEN IF value >= 0
         THEN (value * 100) \div max_value
         ELSE 0 - (((0 - value) * 100) \div max_value)
    ELSE 0

\* A _handle_execution_start that takes the wall-clock time at every event.
HandleExecutionStartRestamps(tasks, prompt_id, start_timestamp, template, clock) ==
    IF prompt_id = NoPromptId
    THEN tasks
    ELSE LET t1 == InitializeTaskTracking(tasks, prompt_id, template)
             task == t1[prompt_id]
         IN [t1 EXCEPT ![prompt_id] =
                [task EXCEPT !.status = "running",
                             !.start_timestamp = start_timestamp,
                             !.start_time = Some(clock)]]

\* _handle_execution_start
HandleExecutionStart(tasks, prompt_id, start_timestamp, template, clock) ==
    IF prompt_id = NoPromptId
    THEN tasks
    ELSE LET t1 == InitializeTaskTracking(tasks, prompt_id, template)
             task == t1[prompt_id]
         IN [t1 EXCEPT ![prompt_id] =
                [task EXCEPT !.status = "running",
                             !.start_timestamp = start_timestamp,
                             !.start_time = IF task.start_time = None
                                            THEN Some(clock) ELSE task.start_time]]

\* _handle_executing
HandleExecuting(tasks, prompt_id, node_id, template) ==
    IF prompt_id = NoPromptId \/ prompt_id \notin DOMAIN tasks
    THEN tasks
    ELSE LET task == tasks[prompt_id] IN
         IF node_id = NoneStr
         THEN LET workflow_node_ids ==
                      IF task.workflow_node_ids = {} /\ template = "ok"
                      THEN WorkflowNodeIds
                      ELSE task.workflow_node_ids
              IN [tasks EXCEPT ![prompt_id] =
                     [task EXCEPT !.status = "completed",
                                  !.workflow_node_ids = workflow_node_ids,
                                  !.completed_nodes = workflow_node_ids,
                                  !.current_node_id = NoneStr]]
         ELSE [tasks EXCEPT ![prompt_id] =
                  [task EXCEPT !.status = "running",
                               !.completed_nodes =
                                   IF task.current_node_id # NoneStr
                                   THEN task.completed_nodes \cup {task.current_node_id}
                                   ELSE task.completed_nodes,
                               !.current_node_id = node_id]]

\* _handle_executed; h_ok tells whether its get_history request succeeds.
HandleExecuted(tasks, prompt_id, output, server, h_ok) ==
    IF prompt_id = NoPromptId \/ prompt_id \notin DOMAIN tasks
    THEN tasks
    ELSE LET task == tasks[prompt_id]
             video_info == ExtractVideoInfo(output)
             duration == IF prompt_id \in GetHistory(server, h_ok)
                         THEN ExtractDurationFromHistory(server[prompt_id])
                         ELSE None
         IN [tasks EXCEPT ![prompt_id] =
                [task EXCEPT !.status = "completed",
                             !.output = IF OutputsEmpty(output) THEN task.output ELSE output,
                             !.video = IF ~OutputsEmpty(output) /\ video_info # None
                                       THEN video_info ELSE task.video,
                             !.duration_seconds = IF duration # None
                                                  THEN duration ELSE task.duration_seconds]]

\* _on_message, type execution_cached
HandleExecutionCached(tasks, prompt_id) ==
    IF prompt_id # NoPromptId /\ prompt_id \in DOMAIN tasks
    THEN [tasks EXCEPT ![prompt_id].status = "cached"]
    ELSE tasks

\* _on_message, type progress
HandleProgress(tasks, prompt_id, value, max_value) ==
    IF prompt_id # NoPromptId /\ prompt_id \in DOMAIN tasks
    THEN [tasks EXCEPT ![prompt_id].progress = ProgressPercent(value, max_value)]
    ELSE tasks

\* _on_message, type execution_error
HandleExecutionError(tasks, prompt_id, error_msg) ==
    IF prompt_id # NoPromptId /\ prompt_id \in DOMAIN tasks
    THEN [tasks EXCEPT ![prompt_id].status = "error", ![prompt_id].error = error_msg]
    ELSE tasks

EventIds == PromptIds \cup {NoPromptId}
ProgressValues == 0..2
ProgressMaxima == 0..2
ErrorMessages == {"Unknown error", "out of memory"}
StepValues == (0 - 1)..MaxStep
StepMaxima == (0 - 1)..MaxStep

\* What is kept of the latest push event: the data of a progress event and
\* whether its job was tracked; nothing of an event of another type.
NoProgress == [type |-> "other", prompt_id |-> NoPromptId, value |-> 0, max |-> 0,
               tracked |-> FALSE]

ComfyInit ==
    /\ pending_tasks = <<>>
    /\ srv = [id \in PromptIds |-> SrvAbsent]
    /\ workflow_file = "ok"
    /\ now = 1
    /\ n_events = 0
    /\ evented = {}
    /\ last_event = NoProgress
    /\ origin = [id \in PromptIds |-> "none"]

\* The module has been imported and no request has asked for the client.
ClientIdle ==
    /\ comfyui_client = None
    /\ n_clients = 0
    /\ ws_waiting = 0
    /\ ws_open = 0
    /\ n_connections = 0
    /\ clients_used = <<>>

\* No helper function is being called.
NoCall == [fn |-> "none"]

\* In the place of the result of a helper function that has not returned.
NotReturned == <<>>

\* No request handler is inside the render-server client.
ReqIdle == [pc |-> "idle", kind |-> "none", id |-> NoPromptId, template |-> "ok",
            absent |-> FALSE]

\* The event-listener thread is between two messages.
FeedIdle == [pc |-> "idle", id |-> NoPromptId, template |-> "ok"]

CallCounters ==
    /\ req = ReqIdle
    /\ feed = FeedIdle
    /\ ClientIdle
    /\ n_calls = 0
    /\ last_call = [id |-> NoPromptId, tracked_before |-> FALSE, srv_before |-> SrvAbsent,
                    q_ok |-> FALSE, h_ok |-> FALSE, result |-> [status |-> "none"]]
    /\ n_requests = 0
    /\ last_request = [endpoint |-> "none"]

\* The environment variables read by Config, with the values they may hold.
EnvNames == {"GEMINI_API_KEY", "COMFYUI_SERVER_URL", "COMFYUI_INPUT_DIR"}
EnvValues == [GEMINI_API_KEY |-> {None, Some(<<>>), Some(<<" ", "\t">>),
                                  Some(<<" ", "k", " ">>), Some(<<"j">>)},
              COMFYUI_SERVER_URL |-> {None, Some(<<"u", "\n">>)},
              COMFYUI_INPUT_DIR |-> {None, Some(<<" ", "d">>)}]
Environments == {e \in [EnvNames -> UNION {EnvValues[n] : n \in EnvNames}] :
                    \A n \in EnvNames : e[n] \in EnvValues[n]}

NoConfigCall == [kind |-> "none", config |-> None, error |-> "none"]

\* No get_config call was made and nothing is cached.
ConfigFresh ==
    /\ config_cache = None
    /\ n_config = 0
    /\ config_ret = NoConfigCall

ConfigIdle ==
    /\ environ = [n \in EnvNames |-> None]
    /\ ConfigFresh

CallInit ==
    /\ fn_call = NoCall
    /\ CallCounters
    /\ ConfigIdle

\* Bookkeeping shared by the push-event actions: the event is counted and a
\* prompt id that enters the job map is marked as created by an event.
EventSeen(prompt_id, budget, event) ==
    /\ n_events < budget
    /\ n_events' = n_events + 1
    /\ last_event' = event
    /\ evented' = IF prompt_id \in DOMAIN pending_tasks' THEN evented \cup {prompt_id} ELSE evented
    /\ origin' = [id \in PromptIds |->
                    IF id \in DOMAIN pending_tasks' /\ id \notin DOMAIN pending_tasks
                    THEN "event" ELSE origin[id]]
    /\ UNCHANGED <<srv, workflow_file, now>>
    /\ UNCHANGED <<audioVars, callVars, videoVars, cloudVars>>

\* _on_message for each type of push event; budget caps the number of
\* events of a run and the sets are the values the event may carry.
ExecutionStartEvent(budget) ==
    \E prompt_id \in EventIds :
        /\ pending_tasks' = HandleExecutionStart(pending_tasks, prompt_id, Some(StartTs),
                                                 workflow_file, now)
        /\ EventSeen(prompt_id, budget, NoProgress)

ExecutionCachedEvent(budget) ==
    \E prompt_id \in EventIds :
        /\ pending_tasks' = HandleExecutionCached(pending_tasks, prompt_id)
        /\ EventSeen(prompt_id, budget, NoProgress)

ExecutingEvent(budget, nodes) ==
    \E prompt_id \in EventIds, node_id \in nodes \cup {NoneStr} :
        /\ pending_tasks' = HandleExecuting(pending_tasks, prompt_id, node_id, workflow_file)
        /\ EventSeen(prompt_id, budget, NoProgress)

ProgressEvent(budget, values, maxima) ==
    \E prompt_id \in EventIds, value \in values, max_value \in maxima :
        /\ pending_tasks' = HandleProgress(pending_tasks, prompt_id, value, max_value)
        /\ EventSeen(prompt_id, budget,
                     [type |-> "progress", prompt_id |-> prompt_id, value |-> value,
                      max |-> max_value, tracked |-> prompt_id \in DOMAIN pending_tasks])

ExecutedEvent(budget, outputs) ==
    \E prompt_id \in EventIds, output \in outputs, h_ok \in BOOLEAN :
        /\ pending_tasks' = HandleExecuted(pending_tasks, prompt_id, output, srv, h_ok)
        /\ EventSeen(prompt_id, budget, NoProgress)

ExecutionErrorEvent(budget, messages) ==
    \E prompt_id \in EventIds, error_msg \in messages :
        /\ pending_tasks' = HandleExecutionError(pending_tasks, prompt_id, error_msg)
        /\ EventSeen(prompt_id, budget, NoProgress)

\* The push events of the event-listener thread.
OnExecutionStart == ExecutionStartEvent(MaxEvents)

OnExecutionCached == ExecutionCachedEvent(MaxEvents)

OnExecuting == ExecutingEvent(MaxEvents, WorkflowNodeIds)

OnProgress == ProgressEvent(MaxEvents, ProgressValues, ProgressMaxima)

\* A progress event whose value and max range over the step counts.
OnProgressSteps == ProgressEvent(MaxEvents, StepValues, StepMaxima)

OnExecuted == ExecutedEvent(MaxEvents, OutputsChoices)

OnExecutionError == ExecutionErrorEvent(MaxEvents, ErrorMessages)

\* The render server accepts a prompt (submitted through any client).
ServerQueues ==
    \E id \in PromptIds :
        /\ srv[id].where = "absent"
        /\ srv' = [srv EXCEPT ![id] = SrvPending]
        /\ UNCHANGED <<pending_tasks, workflow_file, now, n_events, evented, last_event, origin>>
        /\ UNCHANGED <<audioVars, callVars, videoVars, cloudVars>>

\* The render server starts a pending prompt.
ServerStarts ==
    \E id \in PromptIds :
        /\ srv[id].where = "pending"
        /\ srv' = [srv EXCEPT ![id] = SrvRunning]
        /\ UNCHANGED <<pending_tasks, workflow_file, now, n_events, evented, last_event, origin>>
        /\ UNCHANGED <<audioVars, callVars, videoVars, cloudVars>>

\* The render server finishes a running prompt and files it in history.
ServerFinishes ==
    \E id \in PromptIds, outputs \in HistoryOutputs, messages \in MessagesChoices :
        /\ srv[id].where = "running"
        /\ srv' = [srv EXCEPT ![id] = SrvHistory(outputs, messages)]
        /\ UNCHANGED <<pending_tasks, workflow_file, now, n_events, evented, last_event, origin>>
        /\ UNCHANGED <<audioVars, callVars, videoVars, cloudVars>>

\* The workflow template file becomes unreadable, or readable again.
WorkflowFileChanges ==
    /\ workflow_file' = IF workflow_file = "ok" THEN "raises" ELSE "ok"
    /\ UNCHANGED <<pending_tasks, srv, now, n_events, evented, last_event, origin>>
    /\ UNCHANGED <<audioVars, callVars, videoVars, cloudVars>>

\* generate_video, after the upload, the template load and the submission
\* succeeded: tracking is initialized and the prompt text stored.
GenerateVideoTasks(tasks, prompt_id, template, prompt) ==
    LET t1 == InitializeTaskTracking(tasks, prompt_id, template)
    IN [t1 EXCEPT ![prompt_id].prompt = prompt]

\* generate_video: the server assigns a fresh prompt id and queues the job.
\* An unreadable template raises before anything is submitted; a response
\* without prompt id raises after the server has queued the prompt.
GenerateVideo ==
    \E prompt_id \in PromptIds, has_prompt_id \in BOOLEAN :
        /\ srv[prompt_id].where = "absent"
        /\ workflow_file = "ok"
        /\ srv' = [srv EXCEPT ![prompt_id] = SrvPending]
        /\ pending_tasks' = IF has_prompt_id
                            THEN GenerateVideoTasks(pending_tasks, prompt_id, workflow_file, "a prompt")
                            ELSE pending_tasks
        /\ origin' = [origin EXCEPT ![prompt_id] =
                         IF prompt_id \in DOMAIN pending_tasks' /\ prompt_id \notin DOMAIN pending_tasks
                         THEN "generate_video" ELSE @]
        /\ UNCHANGED <<workflow_file, now, n_events, evented, last_event>>
        /\ UNCHANGED <<audioVars, callVars, videoVars, cloudVars>>

\* time.time() advances.
Tick ==
    /\ now < MaxClock
    /\ now' = now + 1
    /\ UNCHANGED <<pending_tasks, srv, workflow_file, n_events, evented, last_event, origin>>
    /\ UNCHANGED <<audioVars, callVars, videoVars, cloudVars>>

\* A request handler calls client.get_status(prompt_id).
StatusCall ==
    \E prompt_id \in PromptIds, q_ok \in BOOLEAN, h_ok \in BOOLEAN :
        /\ n_calls < MaxCalls
        /\ n_calls' = n_calls + 1
        /\ LET r == GetStatus(pending_tasks, prompt_id, srv, q_ok, h_ok, workflow_file, now) IN
             /\ pending_tasks' = r.tasks
             /\ last_call' = [id |-> prompt_id,
                              tracked_before |-> prompt_id \in DOMAIN pending_tasks,
                              srv_before |-> srv[prompt_id],
                              q_ok |-> q_ok, h_ok |-> h_ok,
                              result |-> r.result]
             /\ origin' = [origin EXCEPT ![prompt_id] =
                             IF prompt_id \in DOMAIN r.tasks /\ prompt_id \notin DOMAIN pending_tasks
                             THEN "status_" \o r.result.status ELSE @]
        /\ UNCHANGED <<srv, workflow_file, now, n_events, evented, last_event>>
        /\ UNCHANGED <<n_requests, last_request, fn_call, configVars, feed, clientVars, req>>
        /\ UNCHANGED <<audioVars, videoVars, cloudVars>>

\* ------------------------------------------------------------------------
\* POST /comfyui/queue/cancel: interrupt and clear_queue
\* ------------------------------------------------------------------------
\* interrupt: True when POST /interrupt succeeds, False otherwise.
Interrupt(interrupt_ok) == interrupt_ok

\* The pending list as the server reports it: one [prompt_id, ...] entry per
\* pending prompt, and possibly an entry whose first item is empty.
QueueEntries(prompt_ids, with_blank) ==
    {[is_list |-> TRUE, prompt_id |-> id] : id \in prompt_ids}
        \cup (IF with_blank THEN {[is_list |-> TRUE, prompt_id |-> NoneStr]} ELSE {})

\* for task in queue_pending: the prompt ids of the well-formed entries
PendingIds(queue_pending) ==
    {task.prompt_id : task \in {t \in queue_pending : t.is_list /\ t.prompt_id # NoneStr}}

\* A clear_queue without the fallback to POST /queue/clear.
ClearQueueNoFallback(queue_pending, delete_ok, clear_ok) ==
    IF queue_pending = {} THEN TRUE
    ELSE IF PendingIds(queue_pending) = {} THEN TRUE
    ELSE delete_ok

\* clear_queue: delete_ok and clear_ok tell whether POST /queue with the
\* delete list and POST /queue/clear succeed.
ClearQueue(queue_pending, delete_ok, clear_ok) ==
    IF queue_pending = {} THEN TRUE
    ELSE IF PendingIds(queue_pending) = {} THEN TRUE
    ELSE IF delete_ok THEN TRUE
    ELSE IF clear_ok THEN TRUE
    ELSE FALSE

\* cancel_all_comfyui_tasks: the response built from the two results.
CancelResponse(interrupted, cleared) ==
    IF interrupted \/ cleared
    THEN [code |-> 200, success |-> TRUE, interrupted |-> interrupted, cleared |-> cleared]
    ELSE [code |-> 200, success |-> FALSE, interrupted |-> FALSE, cleared |-> FALSE]

\* What the two requests do on the server: an interrupted prompt leaves the
\* running queue for history, deleted or cleared prompts leave the pending
\* queue.
SrvAfterCancel(server, interrupt_ok, removed) ==
    [id \in DOMAIN server |->
        IF interrupt_ok /\ server[id].where = "running"
        THEN SrvHistory(NoOutputs, <<[type |-> "execution_start", timestamp |-> Some(StartTs)]>>)
        ELSE IF server[id].where = "pending" /\ id \in removed
        THEN SrvAbsent
        ELSE server[id]]

\* POST /comfyui/queue/cancel
CancelAllComfyuiTasks ==
    \E interrupt_ok \in BOOLEAN, q_ok \in BOOLEAN, delete_ok \in BOOLEAN,
       clear_ok \in BOOLEAN, with_blank \in BOOLEAN :
        /\ n_requests < MaxRequests
        /\ n_requests' = n_requests + 1
        /\ LET interrupted == Interrupt(interrupt_ok)
               server_pending == {id \in DOMAIN srv : srv[id].where = "pending"}
               queue_pending == IF q_ok
                                THEN QueueEntries(GetQueue(srv, q_ok).queue_pending, with_blank)
                                ELSE {}
               cleared == ClearQueue(queue_pending, delete_ok, clear_ok)
               removed == IF PendingIds(queue_pending) # {} /\ (delete_ok \/ clear_ok)
                          THEN PendingIds(queue_pending) ELSE {}
           IN /\ last_request' = [endpoint |-> "cancel",
                                  interrupt_ok |-> interrupt_ok, q_ok |-> q_ok,
                                  delete_ok |-> delete_ok, clear_ok |-> clear_ok,
                                  pending_empty |-> (server_pending = {} /\ ~with_blank),
                                  cleared |-> cleared,
                                  response |-> CancelResponse(interrupted, cleared)]
              /\ srv' = SrvAfterCancel(srv, interrupt_ok, removed)
        /\ UNCHANGED <<pending_tasks, workflow_file, now, n_events, evented, last_event, origin>>
        /\ UNCHANGED <<n_calls, last_call, fn_call, configVars, feed, clientVars, req>>
        /\ UNCHANGED <<audioVars, videoVars, cloudVars>>

\* ------------------------------------------------------------------------
\* Image uploads: /initial-questions, /generate_video, /generate_video/test_prompt
\* ------------------------------------------------------------------------
\* Text is a sequence of characters, so that trimming is a computation.
Whitespace == {" ", "\t", "\n"}

RECURSIVE LStrip(_)
LStrip(text) ==
    IF text # <<>> /\ text[1] \in Whitespace THEN LStrip(Tail(text)) ELSE text

RECURSIVE RStrip(_)
RStrip(text) ==
    IF text # <<>> /\ text[Len(text)] \in Whitespace
    THEN RStrip(SubSeq(text, 1, Len(text) - 1)) ELSE text

\* str.strip()
Strip(text) == LStrip(RStrip(text))

AllowedTypes == {"image/jpeg", "image/png", "image/webp", "image/heic", "image/heif"}
ContentTypes == AllowedTypes \cup {"image/gif", NoneStr}
Contents == {"", "img"}

\* A gate that looks at the body before the content type.
UploadGateBodyFirst(content_type, content) ==
    IF content = "" THEN 400
    ELSE IF content_type \notin AllowedTypes THEN 415
    ELSE 0

\* The checks every image endpoint starts with: the status code of the
\* rejection, or 0 when the upload goes on.
UploadGate(content_type, content) ==
    IF content_type \notin AllowedTypes THEN 415
    ELSE IF content = "" THEN 400
    ELSE 0

\* What a call to the hosted model gives: an exception or the response text.
PromptOutcomes == {[raises |-> TRUE, text |-> <<>>],
                   [raises |-> FALSE, text |-> <<>>],
                   [raises |-> FALSE, text |-> <<" ", "p", "\n">>]}

\* generate_suggestions_for_image and extract_json on its text: an exception,
\* no text, text that holds no JSON, JSON with or without a question.
QuestionOutcomes == {[kind |-> "raises", question |-> <<>>],
                     [kind |-> "empty", question |-> <<>>],
                     [kind |-> "prose", question |-> <<>>],
                     [kind |-> "json", question |-> <<>>],
                     [kind |-> "json", question |-> <<" ", "q", " ">>]}

\* The part of a request record that tells what the handler did besides
\* answering.
Effects(llm_calls, uploads, submissions, tasks_after) ==
    [llm_calls |-> llm_calls, uploads |-> uploads, submissions |-> submissions,
     job_map_unchanged |-> (tasks_after = pending_tasks)]

UploadRecord(endpoint, content_type, content, response, effects) ==
    [endpoint |-> endpoint, content_type |-> content_type, content |-> content,
     response |-> response, effects |-> effects]

\* POST /initial-questions
GetInitialQuestions ==
    \E content_type \in ContentTypes, content \in Contents, outcome \in QuestionOutcomes :
        /\ n_requests < MaxRequests
        /\ n_requests' = n_requests + 1
        /\ LET gate == UploadGate(content_type, content)
               response == IF gate # 0 THEN [code |-> gate]
                           ELSE IF outcome.kind \in {"raises", "empty", "prose"}
                           THEN [code |-> 500]
                           ELSE [code |-> 200, question |-> Strip(outcome.question)]
           IN last_request' = UploadRecord("initial-questions", content_type, content, response,
                                           Effects(IF gate = 0 THEN 1 ELSE 0, 0, 0, pending_tasks))
        /\ UNCHANGED <<comfyVars, n_calls, last_call, fn_call, configVars, feed, clientVars, req>>
        /\ UNCHANGED <<audioVars, videoVars, cloudVars>>

\* A test endpoint that goes on to track a job for the generated prompt.
TestVideoPromptTracks ==
    \E content_type \in ContentTypes, content \in Contents, outcome \in PromptOutcomes,
       prompt_id \in PromptIds :
        /\ n_requests < MaxRequests
        /\ n_requests' = n_requests + 1
        /\ LET gate == UploadGate(content_type, content)
               prompted == gate = 0 /\ ~outcome.raises /\ outcome.text # <<>>
               tasks_after == IF prompted
                              THEN GenerateVideoTasks(pending_tasks, prompt_id, workflow_file,
                                                      Strip(outcome.text))
                              ELSE pending_tasks
               response == IF gate # 0 THEN [code |-> gate]
                           ELSE IF ~prompted THEN [code |-> 500]
                           ELSE [code |-> 200, prompt |-> Strip(outcome.text)]
           IN /\ pending_tasks' = tasks_after
              /\ last_request' = UploadRecord("test_prompt", content_type, content, response,
                                              Effects(IF gate = 0 THEN 1 ELSE 0, 0, 0, tasks_after))
        /\ UNCHANGED <<srv, workflow_file, now, n_events, evented, last_event, origin>>
        /\ UNCHANGED <<n_calls, last_call, fn_call, configVars, feed, clientVars, req>>
        /\ UNCHANGED <<audioVars, videoVars, cloudVars>>

\* POST /generate_video/test_prompt
TestVideoPrompt ==
    \E content_type \in ContentTypes, content \in Contents, outcome \in PromptOutcomes :
        /\ n_requests < MaxRequests
        /\ n_requests' = n_requests + 1
        /\ LET gate == UploadGate(content_type, content)
               response == IF gate # 0 THEN [code |-> gate]
                           ELSE IF outcome.raises \/ outcome.text = <<>> THEN [code |-> 500]
                           ELSE [code |-> 200, prompt |-> Strip(outcome.text)]
           IN last_request' = UploadRecord("test_prompt", content_type, content, response,
                                           Effects(IF gate = 0 THEN 1 ELSE 0, 0, 0, pending_tasks))
        /\ UNCHANGED <<comfyVars, n_calls, last_call, fn_call, configVars, feed, clientVars, req>>
        /\ UNCHANGED <<audioVars, videoVars, cloudVars>>

\* POST /generate_video: the gate, the prompt from the hosted model, then
\* client.generate_video (upload, template, submission, tracking) and the
\* first get_status.  upload_ok and queue_ok tell whether the upload and the
\* submission succeed, has_prompt_id whether the server's answer names the job.
GenerateVideoRequest ==
    \E content_type \in ContentTypes, content \in Contents, outcome \in PromptOutcomes,
       prompt_id \in PromptIds, upload_ok \in BOOLEAN, queue_ok \in BOOLEAN,
       has_prompt_id \in BOOLEAN :
        /\ n_requests < MaxRequests
        /\ n_requests' = n_requests + 1
        /\ queue_ok => srv[prompt_id].where = "absent"
        /\ LET gate == UploadGate(content_type, content)
               prompted == gate = 0 /\ ~outcome.raises /\ outcome.text # <<>>
               prompt == Strip(outcome.text)
               uploaded == prompted /\ upload_ok
               loaded == uploaded /\ workflow_file = "ok"
               queued == loaded /\ queue_ok
               tracked == queued /\ has_prompt_id
               tasks_after == IF tracked
                              THEN GenerateVideoTasks(pending_tasks, prompt_id, workflow_file, prompt)
                              ELSE pending_tasks
               status_info == TaskInfo(tasks_after[prompt_id], now)
               response == IF gate # 0 THEN [code |-> gate]
                           ELSE IF ~tracked THEN [code |-> 500]
                           ELSE [code |-> 200, job_id |-> prompt_id, prompt |-> prompt,
                                 status |-> status_info.status,
                                 progress |-> status_info.progress]
           IN /\ pending_tasks' = tasks_after
              /\ srv' = IF queued THEN [srv EXCEPT ![prompt_id] = SrvPending] ELSE srv
              /\ origin' = [origin EXCEPT ![prompt_id] =
                              IF tracked /\ prompt_id \notin DOMAIN pending_tasks
                              THEN "generate_video" ELSE @]
              /\ last_request' = UploadRecord("generate_video", content_type, content, response,
                                              Effects(IF gate = 0 THEN 1 ELSE 0,
                                                      IF prompted THEN 1 ELSE 0,
                                                      IF loaded THEN 1 ELSE 0,
                                                      tasks_after))
        /\ UNCHANGED <<workflow_file, now, n_events, evented, last_event>>
        /\ UNCHANGED <<n_calls, last_call, fn_call, configVars, feed, clientVars, req>>
        /\ UNCHANGED <<audioVars, videoVars, cloudVars>>

\* ------------------------------------------------------------------------
\* POST /suggestions
\* ------------------------------------------------------------------------
max_suggestions == 3

SuggestionTexts == {<<"a">>, <<" ", "a", " ", "b", "\n">>, <<"\t">>}

\* The lists a model response may carry under "suggestions".
SuggestionLists == UNION {[1..n -> SuggestionTexts] : n \in 0..MaxListLen}

\* generate_suggestions and extract_json on its text: an exception, no text,
\* text that holds no JSON, JSON without the key, JSON with a list.
SuggestionOutcomes ==
    {[kind |-> k, suggestions |-> <<>>] : k \in {"raises", "empty", "prose", "json_no_key"}}
        \cup {[kind |-> "json", suggestions |-> l] : l \in SuggestionLists}

\* A loop over the whole list, without the cut at max_suggestions.
SuggestionsUncut(raw_suggestions) ==
    [i \in 1..Len(raw_suggestions) |-> Strip(raw_suggestions[i])]

\* for s in raw_suggestions[:max_suggestions]: suggestions.append(s.strip())
\* (the test inside the loop runs after the append and never fires)
Suggestions(raw_suggestions) ==
    LET cut == SubSeq(raw_suggestions, 1,
                      IF Len(raw_suggestions) < max_suggestions
                      THEN Len(raw_suggestions) ELSE max_suggestions)
    IN [i \in 1..Len(cut) |-> Strip(cut[i])]

\* POST /suggestions
GetSuggestions ==
    \E outcome \in SuggestionOutcomes :
        /\ n_requests < MaxRequests
        /\ n_requests' = n_requests + 1
        /\ LET raw_suggestions == IF outcome.kind = "json" THEN outcome.suggestions ELSE <<>>
               response == IF outcome.kind \in {"raises", "empty", "prose"}
                           THEN [code |-> 500]
                           ELSE [code |-> 200, suggestions |-> Suggestions(raw_suggestions)]
           IN last_request' = [endpoint |-> "suggestions", kind |-> outcome.kind,
                               raw |-> raw_suggestions, response |-> response]
        /\ UNCHANGED <<comfyVars, n_calls, last_call, fn_call, configVars, feed, clientVars, req>>
        /\ UNCHANGED <<audioVars, videoVars, cloudVars>>

\* ------------------------------------------------------------------------
\* GET /metrics/{cpu,mem,load,all}
\* ------------------------------------------------------------------------
MetricsPaths == {"cpu", "mem", "load", "all"}

\* What the request to the metrics collector gives: an exception of httpx, or
\* a response with a status and a body.
UpstreamOutcomes ==
    {[kind |-> k, status |-> 0, json |-> FALSE, body |-> ""] :
        k \in {"timeout", "connect_timeout", "connect_error", "read_error"}}
    \cup {[kind |-> "response", status |-> st, json |-> j, body |-> "payload"] :
            st \in {200, 204, 302, 404, 500}, j \in BOOLEAN}

\* A handler whose except clauses also take the 502 it raised itself.
MetricsResponseCatchAll(upstream) ==
    IF upstream.kind \in {"timeout", "connect_timeout"} THEN [code |-> 504, body |-> ""]
    ELSE IF upstream.kind = "connect_error" THEN [code |-> 503, body |-> ""]
    ELSE IF upstream.kind = "read_error" THEN [code |-> 500, body |-> ""]
    ELSE IF upstream.status # 200 THEN [code |-> 503, body |-> ""]
    ELSE IF ~upstream.json THEN [code |-> 500, body |-> ""]
    ELSE [code |-> 200, body |-> upstream.body]

\* get_*_metrics: TimeoutException (ConnectTimeout included) gives 504,
\* ConnectError 503, a status other than 200 raises 502, which no except
\* clause takes; any other exception is not handled.
MetricsResponse(upstream) ==
    IF upstream.kind \in {"timeout", "connect_timeout"} THEN [code |-> 504, body |-> ""]
    ELSE IF upstream.kind = "connect_error" THEN [code |-> 503, body |-> ""]
    ELSE IF upstream.kind = "read_error" THEN [code |-> 500, body |-> ""]
    ELSE IF upstream.status # 200 THEN [code |-> 502, body |-> ""]
    ELSE IF ~upstream.json THEN [code |-> 500, body |-> ""]
    ELSE [code |-> 200, body |-> upstream.body]

\* GET /metrics/<path>
GetMetrics ==
    \E path \in MetricsPaths, upstream \in UpstreamOutcomes :
        /\ n_requests < MaxRequests
        /\ n_requests' = n_requests + 1
        /\ last_request' = [endpoint |-> "metrics", path |-> path, upstream |-> upstream,
                            response |-> MetricsResponse(upstream)]
        /\ UNCHANGED <<comfyVars, n_calls, last_call, fn_call, configVars, feed, clientVars, req>>
        /\ UNCHANGED <<audioVars, videoVars, cloudVars>>

\* ------------------------------------------------------------------------
\* GET /generate_video/{job_id}/download
\* ------------------------------------------------------------------------
\* What GET /view of the render server gives: content, no content, or a
\* failed request.
ViewOutcomes == {"mp4bytes", "", "raises"}
NoBytes == "None"

\* get_video_bytes: its own get_status, then get_image; None unless the job
\* is completed, has a filename and the fetch succeeds.
GetVideoBytes(tasks, prompt_id, server, q_ok, h_ok, template, clock, view) ==
    LET r == GetStatus(tasks, prompt_id, server, q_ok, h_ok, template, clock)
        status_info == r.result
    IN [bytes |-> IF status_info.status # "completed" THEN NoBytes
                  ELSE IF Get(status_info, "video", None) = None THEN NoBytes
                  ELSE IF view = "raises" THEN NoBytes
                  ELSE view,
        tasks |-> r.tasks]

\* A download_video that hands out whatever the job has before it is completed.
DownloadResponseAnyStatus(status_info, video_bytes) ==
    IF status_info.status = "not_found" THEN [code |-> 404, content |-> NoBytes]
    ELSE [code |-> 200, content |-> "mp4bytes",
          duration_header |-> Get(status_info, "duration_seconds", None)]

\* download_video: the response for the status it read and the bytes that
\* get_video_bytes would give for a completed job.
DownloadResponse(status_info, video_bytes) ==
    IF status_info.status = "not_found" THEN [code |-> 404, content |-> NoBytes]
    ELSE IF status_info.status # "completed" THEN [code |-> 400, content |-> NoBytes]
    ELSE IF video_bytes = NoBytes \/ video_bytes = "" THEN [code |-> 404, content |-> NoBytes]
    ELSE [code |-> 200, content |-> video_bytes,
          duration_header |-> Get(status_info, "duration_seconds", None)]

\* GET /generate_video/{job_id}/download
DownloadVideo ==
    \E job_id \in PromptIds, q_ok \in BOOLEAN, h_ok \in BOOLEAN, view \in ViewOutcomes :
        /\ n_requests < MaxRequests
        /\ n_requests' = n_requests + 1
        /\ LET r == GetStatus(pending_tasks, job_id, srv, q_ok, h_ok, workflow_file, now)
               status_info == r.result
               b == GetVideoBytes(r.tasks, job_id, srv, q_ok, h_ok, workflow_file, now, view)
               fetched == status_info.status = "completed"
           IN /\ pending_tasks' = IF fetched THEN b.tasks ELSE r.tasks
              /\ origin' = [origin EXCEPT ![job_id] =
                              IF job_id \in DOMAIN r.tasks /\ job_id \notin DOMAIN pending_tasks
                              THEN "status_" \o status_info.status ELSE @]
              /\ last_request' = [endpoint |-> "download",
                                  tracked |-> job_id \in DOMAIN pending_tasks,
                                  status |-> status_info.status,
                                  view |-> view,
                                  response |-> DownloadResponse(status_info, b.bytes)]
        /\ UNCHANGED <<srv, workflow_file, now, n_events, evented, last_event>>
        /\ UNCHANGED <<n_calls, last_call, fn_call, configVars, feed, clientVars, req>>
        /\ UNCHANGED <<audioVars, videoVars, cloudVars>>

\* ------------------------------------------------------------------------
\* /ws/video/{job_id}: ws_video_status
\* ------------------------------------------------------------------------
VideoJob == "p1"

VideoInit ==
    /\ v_pc = "accept"
    /\ v_last_status = NoneStr
    /\ v_last_progress = 0
    /\ v_frames = <<>>
    /\ v_gone = FALSE
    /\ v_polls = 0
    /\ v_saw_terminal = FALSE
    /\ v_initial = NoneStr

\* A send condition that forgets the progress of the frame sent last.
StatusChangedIgnoringProgress(current_status_value, current_progress, last_status, last_progress) ==
    current_status_value # last_status \/ current_progress # 0

\* if current_status_value != last_status or current_progress != last_progress
StatusChanged(current_status_value, current_progress, last_status, last_progress) ==
    current_status_value # last_status \/ current_progress # last_progress

VideoUrl(status) == IF status = "completed" THEN "/generate_video/p1/download" ELSE NoneStr

OriginAfterStatus(tasks_after, prompt_id, result) ==
    [origin EXCEPT ![prompt_id] =
        IF prompt_id \in DOMAIN tasks_after /\ prompt_id \notin DOMAIN pending_tasks
        THEN "status_" \o result.status ELSE @]

\* A handler that does not look for not_found and starts monitoring any job.
VideoConnectAnyJob ==
    /\ v_pc = "accept"
    /\ \E q_ok \in BOOLEAN, h_ok \in BOOLEAN :
         LET r == GetStatus(pending_tasks, VideoJob, srv, q_ok, h_ok, workflow_file, now)
             initial_status == r.result
         IN /\ pending_tasks' = r.tasks
            /\ origin' = OriginAfterStatus(r.tasks, VideoJob, r.result)
            /\ v_saw_terminal' = (initial_status.status \in {"completed", "error"})
            /\ v_initial' = initial_status.status
            /\ IF v_gone
               THEN \* send_text raises; the socket is closed in the finally block
                    /\ v_pc' = "closed"
                    /\ UNCHANGED <<v_frames, v_last_status, v_last_progress>>
               ELSE /\ v_frames' = Append(v_frames,
                                     [type |-> "status",
                                      status |-> Get(initial_status, "status", "unknown"),
                                      progress |-> Get(initial_status, "progress", 0),
                                      video_url |-> VideoUrl(Get(initial_status, "status", NoneStr))])
                    /\ v_last_status' = Get(initial_status, "status", NoneStr)
                    /\ v_last_progress' = Get(initial_status, "progress", 0)
                    /\ v_pc' = "sleep"
    /\ UNCHANGED <<srv, workflow_file, now, n_events, evented, last_event, v_gone, v_polls>>
    /\ UNCHANGED <<audioVars, callVars, cloudVars>>

\* accept, the first get_status and the initial frame.
VideoConnect ==
    /\ v_pc = "accept"
    /\ \E q_ok \in BOOLEAN, h_ok \in BOOLEAN :
         LET r == GetStatus(pending_tasks, VideoJob, srv, q_ok, h_ok, workflow_file, now)
             initial_status == r.result
         IN /\ pending_tasks' = r.tasks
            /\ origin' = OriginAfterStatus(r.tasks, VideoJob, r.result)
            /\ v_saw_terminal' = (initial_status.status \in {"completed", "error"})
            /\ v_initial' = initial_status.status
            /\ IF v_gone
               THEN \* send_text raises; the socket is closed in the finally block
                    /\ v_pc' = "closed"
                    /\ UNCHANGED <<v_frames, v_last_status, v_last_progress>>
               ELSE IF Get(initial_status, "status", NoneStr) = "not_found"
               THEN /\ v_frames' = Append(v_frames, [type |-> "error"])
                    /\ v_pc' = "closed"
                    /\ UNCHANGED <<v_last_status, v_last_progress>>
               ELSE /\ v_frames' = Append(v_frames,
                                     [type |-> "status",
                                      status |-> Get(initial_status, "status", "unknown"),
                                      progress |-> Get(initial_status, "progress", 0),
                                      video_url |-> VideoUrl(Get(initial_status, "status", NoneStr))])
                    /\ v_last_status' = Get(initial_status, "status", NoneStr)
                    /\ v_last_progress' = Get(initial_status, "progress", 0)
                    /\ v_pc' = "sleep"
    /\ UNCHANGED <<srv, workflow_file, now, n_events, evented, last_event, v_gone, v_polls>>
    /\ UNCHANGED <<audioVars, callVars, cloudVars>>

\* One turn of the monitoring loop up to the wait for a client message:
\* sleep, get_status, the status frame when something changed, the done frame.
VideoPoll ==
    /\ v_pc = "sleep"
    /\ v_polls < MaxPolls
    /\ v_polls' = v_polls + 1
    /\ \E q_ok \in BOOLEAN, h_ok \in BOOLEAN :
         LET r == GetStatus(pending_tasks, VideoJob, srv, q_ok, h_ok, workflow_file, now)
             current_status == r.result
             current_status_value == Get(current_status, "status", "unknown")
             current_progress == Get(current_status, "progress", 0)
             status_frame == [type |-> "status",
                              status |-> current_status_value,
                              progress |-> current_progress,
                              video_url |-> VideoUrl(current_status_value),
                              error |-> Get(current_status, "error", NoneStr)]
         IN /\ pending_tasks' = r.tasks
            /\ origin' = OriginAfterStatus(r.tasks, VideoJob, r.result)
            /\ v_saw_terminal' = (v_saw_terminal \/ current_status_value \in {"completed", "error"})
            /\ IF StatusChanged(current_status_value, current_progress,
                                v_last_status, v_last_progress)
               THEN IF v_gone
                    THEN /\ v_pc' = "closed"
                         /\ UNCHANGED <<v_frames, v_last_status, v_last_progress>>
                    ELSE /\ v_last_status' = current_status_value
                         /\ v_last_progress' = current_progress
                         /\ IF current_status_value \in {"completed", "error"}
                            THEN /\ v_frames' = v_frames \o
                                       <<status_frame, [type |-> "done", status |-> current_status_value]>>
                                 /\ v_pc' = "closed"
                            ELSE /\ v_frames' = Append(v_frames, status_frame)
                                 /\ v_pc' = "recv"
               ELSE /\ v_pc' = "recv"
                    /\ UNCHANGED <<v_frames, v_last_status, v_last_progress>>
    /\ UNCHANGED <<srv, workflow_file, now, n_events, evented, last_event, v_gone, v_initial>>
    /\ UNCHANGED <<audioVars, callVars, cloudVars>>

\* msg = await websocket.receive(): the client sent something.
VideoReceive ==
    /\ v_pc = "recv"
    /\ ~v_gone
    /\ v_pc' = "sleep"
    /\ UNCHANGED <<v_last_status, v_last_progress, v_frames, v_gone, v_polls, v_saw_terminal, v_initial>>
    /\ UNCHANGED <<audioVars, comfyVars, callVars, cloudVars>>

\* msg = await websocket.receive(): the client has disconnected.
VideoReceiveDisconnect ==
    /\ v_pc = "recv"
    /\ v_gone
    /\ v_pc' = "closed"
    /\ UNCHANGED <<v_last_status, v_last_progress, v_frames, v_gone, v_polls, v_saw_terminal, v_initial>>
    /\ UNCHANGED <<audioVars, comfyVars, callVars, cloudVars>>

\* The push events that arrive while the status socket of the job is served.
FeedExecutionStart == ExecutionStartEvent(MaxFeedEvents)

FeedExecutionCached == ExecutionCachedEvent(MaxFeedEvents)

FeedExecuting == ExecutingEvent(MaxFeedEvents, {SAVE_VIDEO_NODE_ID})

FeedProgress == ProgressEvent(MaxFeedEvents, {1, 2}, {2})

FeedExecuted == ExecutedEvent(MaxFeedEvents, {NoOutputs})

FeedExecutionError == ExecutionErrorEvent(MaxFeedEvents, {"out of memory"})

\* An executed event that carries the video output of node 108.
FeedExecutedWithVideo ==
    ExecutedEvent(MaxFeedEvents,
                  {[NoOutputs EXCEPT ![SAVE_VIDEO_NODE_ID] =
                       [shape |-> "dict_images", items |-> <<VideoFile>>]]})

\* The client of the status socket goes away.
VideoClientGone ==
    /\ v_pc # "closed"
    /\ ~v_gone
    /\ v_gone' = TRUE
    /\ UNCHANGED <<v_pc, v_last_status, v_last_progress, v_frames, v_polls, v_saw_terminal, v_initial>>
    /\ UNCHANGED <<audioVars, comfyVars, callVars, cloudVars>>

\* ------------------------------------------------------------------------
\* Cloud video jobs: app/gemini.py
\* ------------------------------------------------------------------------
OperationIds == {"op1", "op2"}

\* Path.exists() of generated_videos/<id>.mp4
FileExists(files, operation_id) == files[operation_id] # "absent"

\* job_statuses[operation_id] = {"status": "IN_PROGRESS", "file_path": None}
InitialJobEntry == [status |-> "IN_PROGRESS", file_path |-> NoneStr]

\* entry[key] = value on a dict
SetKey(entry, key, value) ==
    [k \in (DOMAIN entry) \cup {key} |-> IF k = key THEN value ELSE entry[k]]

\* No cloud job, no file.
CloudIdle ==
    /\ job_statuses = <<>>
    /\ disk = [id \in OperationIds |-> "absent"]
    /\ op_done = [id \in OperationIds |-> FALSE]
    /\ worker = [id \in OperationIds |-> [pc |-> "none", done |-> FALSE]]
    /\ n_checks = 0
    /\ checks = <<>>

\* A fresh process: no job is tracked; files of an earlier process may be
\* on disk.
CloudInit ==
    /\ job_statuses = <<>>
    /\ disk \in [OperationIds -> {"absent", "complete"}]
    /\ op_done = [id \in OperationIds |-> FALSE]
    /\ worker = [id \in OperationIds |-> [pc |-> "none", done |-> FALSE]]
    /\ n_checks = 0
    /\ checks = <<>>

\* generate_video_from_image: the job entry is recorded and the worker started.
GenerateVideoFromImage ==
    \E operation_id \in OperationIds :
        /\ operation_id \notin DOMAIN job_statuses
        /\ job_statuses' = Put(job_statuses, operation_id, InitialJobEntry)
        /\ worker' = [worker EXCEPT ![operation_id] = [pc |-> "poll", done |-> op_done[operation_id]]]
        /\ UNCHANGED <<disk, op_done, n_checks, checks>>
        /\ UNCHANGED <<audioVars, comfyVars, callVars, videoVars>>

\* The remote operation finishes.
OperationFinishes ==
    \E operation_id \in OperationIds :
        /\ operation_id \in DOMAIN job_statuses
        /\ ~op_done[operation_id]
        /\ op_done' = [op_done EXCEPT ![operation_id] = TRUE]
        /\ UNCHANGED <<job_statuses, disk, worker, n_checks, checks>>
        /\ UNCHANGED <<audioVars, comfyVars, callVars, videoVars>>

\* An except block that stores the failure text and leaves the status alone.
MarkErrorTextOnly(jobs, operation_id) ==
    [jobs EXCEPT ![operation_id] = SetKey(@, "error", "failure")]

\* except Exception as e: the job is marked ERROR with the failure text.
MarkError(jobs, operation_id) ==
    [jobs EXCEPT ![operation_id] = SetKey(SetKey(@, "status", "ERROR"), "error", "failure")]

\* _poll_and_download_video: while not operation.done: sleep; operations.get
WorkerPoll ==
    \E operation_id \in OperationIds, ok \in BOOLEAN :
        /\ worker[operation_id].pc = "poll"
        /\ IF worker[operation_id].done
           THEN /\ worker' = [worker EXCEPT ![operation_id].pc = "download"]
                /\ UNCHANGED job_statuses
           ELSE IF ok
                THEN /\ worker' = [worker EXCEPT ![operation_id].done = op_done[operation_id]]
                     /\ UNCHANGED job_statuses
                ELSE /\ worker' = [worker EXCEPT ![operation_id].pc = "ended"]
                     /\ job_statuses' = MarkError(job_statuses, operation_id)
        /\ UNCHANGED <<disk, op_done, n_checks, checks>>
        /\ UNCHANGED <<audioVars, comfyVars, callVars, videoVars>>

\* generated_videos[0], client.files.download(...), open(output_path, "wb")
WorkerDownload ==
    \E operation_id \in OperationIds, ok \in BOOLEAN :
        /\ worker[operation_id].pc = "download"
        /\ IF ok
           THEN /\ worker' = [worker EXCEPT ![operation_id].pc = "write"]
                /\ disk' = [disk EXCEPT ![operation_id] = "partial"]
                /\ UNCHANGED job_statuses
           ELSE /\ worker' = [worker EXCEPT ![operation_id].pc = "ended"]
                /\ job_statuses' = MarkError(job_statuses, operation_id)
                /\ UNCHANGED disk
        /\ UNCHANGED <<op_done, n_checks, checks>>
        /\ UNCHANGED <<audioVars, comfyVars, callVars, videoVars>>

\* f.write(...) of the whole file, then the job is marked COMPLETED.
WorkerWrite ==
    \E operation_id \in OperationIds, ok \in BOOLEAN :
        /\ worker[operation_id].pc = "write"
        /\ worker' = [worker EXCEPT ![operation_id].pc = "ended"]
        /\ IF ok
           THEN /\ disk' = [disk EXCEPT ![operation_id] = "complete"]
                /\ job_statuses' = [job_statuses EXCEPT ![operation_id] =
                                       SetKey(SetKey(@, "status", "COMPLETED"),
                                              "file_path", "generated_videos/" \o operation_id \o ".mp4")]
           ELSE /\ job_statuses' = MarkError(job_statuses, operation_id)
                /\ UNCHANGED disk
        /\ UNCHANGED <<op_done, n_checks, checks>>
        /\ UNCHANGED <<audioVars, comfyVars, callVars, videoVars>>

\* A check_for_video_completion that looks the job up before the file.
CheckForVideoCompletionJobFirst(jobs, files, remote_done, operation_id, rpc_ok) ==
    IF operation_id \notin DOMAIN jobs
    THEN [result |-> "RuntimeError: not found in job_statuses", jobs |-> jobs]
    ELSE IF FileExists(files, operation_id)
    THEN [result |-> "COMPLETED", jobs |-> jobs]
    ELSE [result |-> "RuntimeError: not found in job_statuses", jobs |-> jobs]

\* check_for_video_completion: the answer (a status, or the error raised) and
\* the job map it leaves behind.  rpc_ok tells whether operations.get succeeds.
CheckForVideoCompletion(jobs, files, remote_done, operation_id, rpc_ok) ==
    IF FileExists(files, operation_id)
    THEN [result |-> "COMPLETED", jobs |-> jobs]
    ELSE IF operation_id \notin DOMAIN jobs
    THEN [result |-> "RuntimeError: not found in job_statuses", jobs |-> jobs]
    ELSE LET entry == jobs[operation_id] IN
         IF "operation" \notin DOMAIN entry
         THEN \* entry["operation"] raises KeyError
              [result |-> "RuntimeError: not found in job_statuses", jobs |-> jobs]
         ELSE IF ~rpc_ok
         THEN [result |-> "RuntimeError: Error checking operation status", jobs |-> jobs]
         ELSE IF remote_done[operation_id]
         THEN [result |-> "COMPLETED", jobs |-> jobs]
         ELSE [result |-> "IN_PROGRESS", jobs |-> jobs]

\* A request handler calls check_for_video_completion(operation_id).
CheckCall ==
    \E operation_id \in OperationIds, rpc_ok \in BOOLEAN :
        /\ n_checks < MaxChecks
        /\ n_checks' = n_checks + 1
        /\ LET r == CheckForVideoCompletion(job_statuses, disk, op_done, operation_id, rpc_ok) IN
             /\ job_statuses' = r.jobs
             /\ checks' = Append(checks,
                                 [id |-> operation_id,
                                  file_existed |-> FileExists(disk, operation_id),
                                  tracked |-> operation_id \in DOMAIN job_statuses,
                                  remote_done |-> op_done[operation_id],
                                  rpc_ok |-> rpc_ok,
                                  map_unchanged |-> (r.jobs = job_statuses),
                                  result |-> r.result])
        /\ UNCHANGED <<disk, op_done, worker>>
        /\ UNCHANGED <<audioVars, comfyVars, callVars, videoVars>>

\* ------------------------------------------------------------------------
\* Specifications
\* ------------------------------------------------------------------------
Init == AudioInit /\ ComfyInit /\ CallInit /\ VideoInit /\ CloudIdle

InitCloud == AudioInit /\ ComfyInit /\ CallInit /\ VideoInit /\ CloudInit

\* The render-server client under push events.
Next ==
    \/ OnExecutionStart
    \/ OnExecutionCached
    \/ OnExecuting
    \/ OnProgress
    \/ OnExecuted
    \/ OnExecutionError
    \/ ServerQueues
    \/ ServerStarts
    \/ ServerFinishes
    \/ WorkflowFileChanges
    \/ GenerateVideo
    \/ Tick

Spec == Init /\ [][Next]_vars

\* get_status requests against the render server's queue and history.
StatusNext ==
    \/ ServerQueues
    \/ ServerStarts
    \/ ServerFinishes
    \/ WorkflowFileChanges
    \/ GenerateVideo
    \/ Tick
    \/ StatusCall

SpecStatus == Init /\ [][StatusNext]_vars

\* Cancel requests against the render server's queue.
QueueNext ==
    \/ ServerQueues
    \/ ServerStarts
    \/ ServerFinishes
    \/ CancelAllComfyuiTasks

SpecQueue == Init /\ [][QueueNext]_vars

\* Download requests for a job the server works on and reports about.
DownloadNext ==
    \/ FeedExecutionStart
    \/ FeedExecuted
    \/ FeedExecutedWithVideo
    \/ FeedExecutionError
    \/ ServerQueues
    \/ ServerStarts
    \/ ServerFinishes
    \/ DownloadVideo

SpecDownload == Init /\ [][DownloadNext]_vars

\* Requests to the endpoints that take an image.
UploadNext ==
    \/ GetInitialQuestions
    \/ TestVideoPrompt
    \/ GenerateVideoRequest
    \/ WorkflowFileChanges

SpecUpload == Init /\ [][UploadNext]_vars

\* Requests to the suggestion endpoint and to the metrics proxy.
ApiNext ==
    \/ GetSuggestions
    \/ GetMetrics

SpecApi == Init /\ [][ApiNext]_vars

\* _format_elapsed_time applied to a whole number of seconds.
ElapsedInit ==
    /\ AudioInit /\ ComfyInit /\ CallCounters /\ ConfigIdle /\ VideoInit /\ CloudIdle
    /\ fn_call \in {[fn |-> "_format_elapsed_time", arg |-> e, ret |-> NotReturned, returned |-> FALSE] :
                      e \in 0..MaxElapsed}

FormatElapsedTimeCall ==
    /\ fn_call.fn = "_format_elapsed_time"
    /\ ~fn_call.returned
    /\ fn_call' = [fn_call EXCEPT !.ret = FormatElapsedTime(fn_call.arg),
                                 !.returned = TRUE]
    /\ UNCHANGED <<n_calls, last_call, n_requests, last_request, configVars, feed, clientVars, req>>
    /\ UNCHANGED <<audioVars, comfyVars, videoVars, cloudVars>>

SpecElapsed == ElapsedInit /\ [][FormatElapsedTimeCall]_vars

\* _extract_duration_from_history applied to the messages of a history entry.
MessageTypes == {"execution_start", "execution_cached", "execution_success"}
Timestamps == {None, Some(0), Some(StartTs), Some(EndTs)}
HistoryMessages == [type : MessageTypes, timestamp : Timestamps]
MessageLists == UNION {[1..n -> HistoryMessages] : n \in 0..MaxMessages}

DurationInit ==
    /\ AudioInit /\ ComfyInit /\ CallCounters /\ ConfigIdle /\ VideoInit /\ CloudIdle
    /\ fn_call \in {[fn |-> "_extract_duration_from_history", arg |-> messages,
                      ret |-> NotReturned, returned |-> FALSE] : messages \in MessageLists}

ExtractDurationCall ==
    /\ fn_call.fn = "_extract_duration_from_history"
    /\ ~fn_call.returned
    /\ fn_call' = [fn_call EXCEPT
                      !.ret = ExtractDurationFromHistory([messages |-> fn_call.arg]),
                      !.returned = TRUE]
    /\ UNCHANGED <<n_calls, last_call, n_requests, last_request, configVars, feed, clientVars, req>>
    /\ UNCHANGED <<audioVars, comfyVars, videoVars, cloudVars>>

SpecDuration == DurationInit /\ [][ExtractDurationCall]_vars

\* ------------------------------------------------------------------------
\* extract_json
\* ------------------------------------------------------------------------
\* Texts are sequences of characters; "k" stands for a member key with its
\* colon, "1" for a digit and "a" for a letter of prose.
JsonChars == {"{", "}", "k", "1", "a", " "}
JsonTexts == UNION {[1..n -> JsonChars] : n \in 0..MaxTextLen}

RECURSIVE SkipSpace(_, _)
SkipSpace(text, pos) ==
    IF pos <= Len(text) /\ text[pos] = " " THEN SkipSpace(text, pos + 1) ELSE pos

RECURSIVE NumberEnd(_, _)
NumberEnd(text, pos) ==
    IF pos <= Len(text) /\ text[pos] = "1" THEN NumberEnd(text, pos + 1) ELSE pos

NoValue == [kind |-> "none", digits |-> 0, members |-> <<>>]
ParseFail == [ok |-> FALSE, value |-> NoValue, next |-> 0]

\* The JSON value starting at pos: a number, or an object with at most one
\* member; next is the position after it.
RECURSIVE ParseValue(_, _)
ParseValue(text, pos) ==
    LET i == SkipSpace(text, pos) IN
    IF i > Len(text) THEN ParseFail
    ELSE IF text[i] = "1"
    THEN [ok |-> TRUE,
          value |-> [kind |-> "number", digits |-> NumberEnd(text, i) - i, members |-> <<>>],
          next |-> NumberEnd(text, i)]
    ELSE IF text[i] = "{"
    THEN LET j == SkipSpace(text, i + 1) IN
         IF j > Len(text) THEN ParseFail
         ELSE IF text[j] = "}"
         THEN [ok |-> TRUE,
               value |-> [kind |-> "object", digits |-> 0, members |-> <<>>],
               next |-> j + 1]
         ELSE IF text[j] = "k"
         THEN LET r == ParseValue(text, j + 1) IN
              IF ~r.ok THEN ParseFail
              ELSE LET e == SkipSpace(text, r.next) IN
                   IF e <= Len(text) /\ text[e] = "}"
                   THEN [ok |-> TRUE,
                         value |-> [kind |-> "object", digits |-> 0,
                                    members |-> <<r.value>>],
                         next |-> e + 1]
                   ELSE ParseFail
         ELSE ParseFail
    ELSE ParseFail

\* json.loads: the value of the whole text, or a decode error.
JsonLoads(text) ==
    LET r == ParseValue(text, 1) IN
    IF r.ok /\ SkipSpace(text, r.next) = Len(text) + 1
    THEN [ok |-> TRUE, value |-> r.value]
    ELSE [ok |-> FALSE, value |-> NoValue]

Returned(value) == [kind |-> "returns", value |-> value, error |-> "none"]
Raised(error) == [kind |-> "raises", value |-> NoValue, error |-> error]

Positions(text, char) == {i \in 1..Len(text) : text[i] = char}
Min(S) == CHOOSE x \in S : \A y \in S : x <= y
Max(S) == CHOOSE x \in S : \A y \in S : x >= y

\* A search that stops at the first closing brace.
BraceSpanShortest(text) ==
    IF Positions(text, "{") = {} THEN None
    ELSE LET first == Min(Positions(text, "{"))
             closing == {i \in Positions(text, "}") : i > first}
         IN IF closing = {} THEN None ELSE Some(SubSeq(text, first, Min(closing)))

\* re.search(r"\{[\s\S]*\}", text): the leftmost match, taken greedily.
BraceSpan(text) ==
    IF Positions(text, "{") = {} THEN None
    ELSE LET first == Min(Positions(text, "{"))
             closing == {i \in Positions(text, "}") : i > first}
         IN IF closing = {} THEN None ELSE Some(SubSeq(text, first, Max(closing)))

ExtractJson(text) ==
    LET whole == JsonLoads(text) IN
    IF whole.ok THEN Returned(whole.value)
    ELSE LET m == BraceSpan(text) IN
         IF m = None
         THEN Raised("ValueError: Model tidak mengembalikan JSON yang valid.")
         ELSE LET inner == JsonLoads(m[1]) IN
              IF inner.ok THEN Returned(inner.value) ELSE Raised("JSONDecodeError")

ExtractInit ==
    /\ AudioInit /\ ComfyInit /\ CallCounters /\ ConfigIdle /\ VideoInit /\ CloudIdle
    /\ fn_call \in {[fn |-> "extract_json", arg |-> text, ret |-> NotReturned, returned |-> FALSE] :
                      text \in JsonTexts}

ExtractJsonCall ==
    /\ fn_call.fn = "extract_json"
    /\ ~fn_call.returned
    /\ fn_call' = [fn_call EXCEPT !.ret = ExtractJson(fn_call.arg),
                                 !.returned = TRUE]
    /\ UNCHANGED <<n_calls, last_call, n_requests, last_request, configVars, feed, clientVars, req>>
    /\ UNCHANGED <<audioVars, comfyVars, videoVars, cloudVars>>

SpecExtract == ExtractInit /\ [][ExtractJsonCall]_vars

\* ------------------------------------------------------------------------
\* Configuration: Config and get_config
\* ------------------------------------------------------------------------
\* os.getenv(name, default)
GetEnv(env, name, default) == IF env[name] = None THEN default ELSE env[name][1]

DefaultServerUrl == <<"h">>

ConfigError == "ValueError: GEMINI_API_KEY environment variable is required."

\* Config.__init__: the record, or None when the constructor raises.
NewConfig(env) ==
    LET key == Strip(GetEnv(env, "GEMINI_API_KEY", <<>>)) IN
    IF key = <<>>
    THEN None
    ELSE Some([GEMINI_API_KEY |-> key,
               COMFYUI_SERVER_URL |-> Strip(GetEnv(env, "COMFYUI_SERVER_URL",
                                                   DefaultServerUrl)),
               COMFYUI_INPUT_DIR |-> Strip(GetEnv(env, "COMFYUI_INPUT_DIR", <<>>))])

ConfigReturned(config) == [kind |-> "returns", config |-> config, error |-> "none"]
ConfigRaised(error) == [kind |-> "raises", config |-> None, error |-> error]

\* A get_config without lru_cache.
GetConfigUncached(cache, env) ==
    LET built == NewConfig(env) IN
    IF built = None
    THEN [ret |-> ConfigRaised(ConfigError), cache |-> cache]
    ELSE [ret |-> ConfigReturned(built), cache |-> built]

\* get_config under lru_cache(maxsize=1): a cached record is returned as it
\* is; a call that raises caches nothing.
GetConfig(cache, env) ==
    IF cache # None
    THEN [ret |-> ConfigReturned(cache), cache |-> cache]
    ELSE LET built == NewConfig(env) IN
         IF built = None
         THEN [ret |-> ConfigRaised(ConfigError), cache |-> cache]
         ELSE [ret |-> ConfigReturned(built), cache |-> built]

GetConfigCall ==
    /\ n_config < MaxConfigCalls
    /\ n_config' = n_config + 1
    /\ LET r == GetConfig(config_cache, environ) IN
         /\ config_ret' = r.ret
         /\ config_cache' = r.cache
    /\ UNCHANGED <<environ, n_calls, last_call, n_requests, last_request, fn_call, feed, clientVars, req>>
    /\ UNCHANGED <<audioVars, comfyVars, videoVars, cloudVars>>

\* A variable of the environment is set or unset.
EnvironChanges ==
    \E name \in EnvNames : \E value \in EnvValues[name] :
        /\ environ[name] # value
        /\ environ' = [environ EXCEPT ![name] = value]
        /\ UNCHANGED <<config_cache, n_config, config_ret>>
        /\ UNCHANGED <<n_calls, last_call, n_requests, last_request, fn_call, feed, clientVars, req>>
        /\ UNCHANGED <<audioVars, comfyVars, videoVars, cloudVars>>

ConfigInit ==
    /\ AudioInit /\ ComfyInit /\ CallCounters /\ VideoInit /\ CloudIdle
    /\ fn_call = NoCall
    /\ environ \in Environments
    /\ ConfigFresh

ConfigNext ==
    \/ GetConfigCall
    \/ EnvironChanges

SpecConfig == ConfigInit /\ [][ConfigNext]_vars

\* ------------------------------------------------------------------------
\* A request handler on a worker thread, statement by statement, next to the
\* event-listener thread
\* ------------------------------------------------------------------------
ThreadFrame ==
    /\ UNCHANGED <<workflow_file, now, n_events, evented, last_event>>
    /\ UNCHANGED <<n_calls, last_call, n_requests, last_request, fn_call, configVars, feed, clientVars>>
    /\ UNCHANGED <<audioVars, videoVars, cloudVars>>

\* generate_video up to the answer of queue_prompt.
ThreadQueuesPrompt ==
    \E prompt_id \in PromptIds, has_prompt_id \in BOOLEAN :
        /\ req.pc = "idle"
        /\ srv[prompt_id].where = "absent"
        /\ workflow_file = "ok"
        /\ srv' = [srv EXCEPT ![prompt_id] = SrvPending]
        /\ req' = [ReqIdle EXCEPT !.pc = IF has_prompt_id THEN "init_load" ELSE "done",
                                  !.kind = IF has_prompt_id THEN "generate_video"
                                           ELSE "generate_video_raises",
                                  !.id = prompt_id]
        /\ UNCHANGED <<pending_tasks, origin>>
        /\ ThreadFrame

\* get_status: the test `prompt_id in self.pending_tasks` at its top.
ThreadStatusTop ==
    \E prompt_id \in PromptIds :
        /\ req.pc = "idle"
        /\ req' = [ReqIdle EXCEPT !.pc = IF prompt_id \in DOMAIN pending_tasks
                                         THEN "done" ELSE "fetch_queue",
                                  !.kind = "get_status", !.id = prompt_id]
        /\ UNCHANGED <<pending_tasks, srv, origin>>
        /\ ThreadFrame

\* get_status: get_queue and the search of the running and pending lists.
ThreadStatusQueue ==
    \E q_ok \in BOOLEAN :
        /\ req.pc = "fetch_queue"
        /\ req' = IF q_ok /\ srv[req.id].where = "running"
                  THEN [req EXCEPT !.pc = "init_load", !.kind = "status_running"]
                  ELSE IF q_ok /\ srv[req.id].where = "pending"
                  THEN [req EXCEPT !.pc = "pending_check", !.kind = "status_pending"]
                  ELSE [req EXCEPT !.pc = "done"]
        /\ UNCHANGED <<pending_tasks, srv, origin>>
        /\ ThreadFrame

\* get_status, pending branch: `if prompt_id not in self.pending_tasks`.
ThreadPendingCheck ==
    /\ req.pc = "pending_check"
    /\ req' = [req EXCEPT !.pc = IF req.id \notin DOMAIN pending_tasks
                                 THEN "init_load" ELSE "done"]
    /\ UNCHANGED <<pending_tasks, srv, origin>>
    /\ ThreadFrame

\* _initialize_task_tracking: the template is read.
ThreadInitLoad ==
    /\ req.pc = "init_load"
    /\ req' = [req EXCEPT !.pc = "init_check", !.template = workflow_file]
    /\ UNCHANGED <<pending_tasks, srv, origin>>
    /\ ThreadFrame

\* _initialize_task_tracking: `if prompt_id not in self.pending_tasks`.
ThreadInitCheck ==
    /\ req.pc = "init_check"
    /\ req' = [req EXCEPT !.absent = req.id \notin DOMAIN pending_tasks,
                          !.pc = IF req.id \notin DOMAIN pending_tasks
                                 THEN "init_create" ELSE "after_init"]
    /\ UNCHANGED <<pending_tasks, srv, origin>>
    /\ ThreadFrame

\* _initialize_task_tracking: `self.pending_tasks[prompt_id] = {...}`.
ThreadInitCreate ==
    /\ req.pc = "init_create"
    /\ pending_tasks' = Put(pending_tasks, req.id,
                            InitializeTaskTracking(<<>>, req.id, req.template)[req.id])
    /\ origin' = [origin EXCEPT ![req.id] = req.kind]
    /\ req' = [req EXCEPT !.pc = "after_init"]
    /\ UNCHANGED srv
    /\ ThreadFrame

\* The statement after _initialize_task_tracking: generate_video stores the
\* prompt, get_status sets the status of a job found running on the server.
ThreadAfterInit ==
    /\ req.pc = "after_init"
    /\ pending_tasks' =
          IF req.id \notin DOMAIN pending_tasks THEN pending_tasks
          ELSE IF req.kind = "generate_video"
          THEN [pending_tasks EXCEPT ![req.id].prompt = "a prompt"]
          ELSE IF req.kind = "status_running"
          THEN [pending_tasks EXCEPT ![req.id].status = "running"]
          ELSE pending_tasks
    /\ req' = [req EXCEPT !.pc = "done"]
    /\ UNCHANGED <<srv, origin>>
    /\ ThreadFrame

ThreadReturns ==
    /\ req.pc = "done"
    /\ req' = ReqIdle
    /\ UNCHANGED <<pending_tasks, srv, origin>>
    /\ ThreadFrame

ThreadsNext ==
    \/ FeedExecutionStart
    \/ FeedExecuting
    \/ FeedExecuted
    \/ ServerStarts
    \/ ThreadQueuesPrompt
    \/ ThreadStatusTop
    \/ ThreadStatusQueue
    \/ ThreadPendingCheck
    \/ ThreadInitLoad
    \/ ThreadInitCheck
    \/ ThreadInitCreate
    \/ ThreadAfterInit
    \/ ThreadReturns

SpecThreads == Init /\ [][ThreadsNext]_vars

\* ------------------------------------------------------------------------
\* The push events of one job in the order the render server emits them:
\* execution_start, executing for each node, executing without node, executed
\* ------------------------------------------------------------------------
NodeExecutionStart ==
    \E prompt_id \in PromptIds :
        /\ prompt_id \notin evented
        /\ prompt_id \in DOMAIN pending_tasks => pending_tasks[prompt_id].status = "queued"
        /\ pending_tasks' = HandleExecutionStart(pending_tasks, prompt_id, Some(StartTs),
                                                 workflow_file, now)
        /\ EventSeen(prompt_id, MaxNodeEvents, NoProgress)

NodeExecuting ==
    \E prompt_id \in PromptIds, node_id \in WorkflowNodeIds :
        /\ prompt_id \in evented
        /\ pending_tasks[prompt_id].status = "running"
        /\ node_id \notin pending_tasks[prompt_id].completed_nodes
        /\ node_id # pending_tasks[prompt_id].current_node_id
        /\ pending_tasks' = HandleExecuting(pending_tasks, prompt_id, node_id, workflow_file)
        /\ EventSeen(prompt_id, MaxNodeEvents, NoProgress)

NodeExecutionEnds ==
    \E prompt_id \in PromptIds :
        /\ prompt_id \in evented
        /\ pending_tasks[prompt_id].status = "running"
        /\ pending_tasks[prompt_id].current_node_id # NoneStr
        /\ pending_tasks' = HandleExecuting(pending_tasks, prompt_id, NoneStr, workflow_file)
        /\ EventSeen(prompt_id, MaxNodeEvents, NoProgress)

NodeExecuted ==
    \E prompt_id \in PromptIds, output \in OutputsChoices, h_ok \in BOOLEAN :
        /\ prompt_id \in evented
        /\ pending_tasks[prompt_id].status = "completed"
        /\ pending_tasks[prompt_id].output = NoOutputs
        /\ pending_tasks' = HandleExecuted(pending_tasks, prompt_id, output, srv, h_ok)
        /\ EventSeen(prompt_id, MaxNodeEvents, NoProgress)

NodesNext ==
    \/ WorkflowFileChanges
    \/ GenerateVideo
    \/ NodeExecutionStart
    \/ NodeExecuting
    \/ NodeExecutionEnds
    \/ NodeExecuted

SpecNodes == Init /\ [][NodesNext]_vars

\* An executing event that names a node; what it met is kept.
OnExecutingNode ==
    \E prompt_id \in EventIds, node_id \in WorkflowNodeIds :
        /\ pending_tasks' = HandleExecuting(pending_tasks, prompt_id, node_id, workflow_file)
        /\ EventSeen(prompt_id, MaxEvents,
                     [type |-> "executing", prompt_id |-> prompt_id, value |-> 0, max |-> 0,
                      tracked |-> prompt_id \in DOMAIN pending_tasks, node |-> node_id])

\* Executing events for jobs whose execution_start may or may not have been
\* seen.
ExecutingNext ==
    \/ OnExecutionStart
    \/ OnExecutingNode
    \/ GenerateVideo
    \/ WorkflowFileChanges

SpecExecuting == Init /\ [][ExecutingNext]_vars

\* An execution_start event; the wall-clock time at which it was handled and
\* whether the job was tracked before are kept.
OnExecutionStartAt ==
    \E prompt_id \in EventIds :
        /\ pending_tasks' = HandleExecutionStart(pending_tasks, prompt_id, Some(StartTs),
                                                 workflow_file, now)
        /\ EventSeen(prompt_id, MaxEvents,
                     [type |-> "execution_start", prompt_id |-> prompt_id, value |-> now,
                      max |-> 0, tracked |-> prompt_id \in DOMAIN pending_tasks])

\* The push events of a job while the wall clock advances.
StartNext ==
    \/ OnExecutionStartAt
    \/ OnExecutionCached
    \/ OnExecuting
    \/ OnExecuted
    \/ OnExecutionError
    \/ GenerateVideo
    \/ Tick

SpecStart == Init /\ [][StartNext]_vars

\* ------------------------------------------------------------------------
\* get_comfyui_client: the client shared by the request handlers
\* ------------------------------------------------------------------------
\* A get_comfyui_client that builds and connects a client at every call.
GetComfyuiClientAlwaysNew(client, count, waiting, tasks) ==
    [client |-> Some(count + 1), n_clients |-> count + 1,
     ws_waiting |-> waiting + 1, tasks |-> <<>>]

\* get_comfyui_client: when the global is None a ComfyUIClient is built, with
\* an empty job map, and connect_websocket starts its event-feed thread; the
\* global is returned.
GetComfyuiClient(client, count, waiting, tasks) ==
    IF client = None
    THEN [client |-> Some(count + 1), n_clients |-> count + 1,
          ws_waiting |-> waiting + 1, tasks |-> <<>>]
    ELSE [client |-> client, n_clients |-> count, ws_waiting |-> waiting, tasks |-> tasks]

\* What a request handler does first: it takes the client.
TakeClient(g) ==
    /\ Len(clients_used) < MaxClientRequests
    /\ comfyui_client' = g.client
    /\ n_clients' = g.n_clients
    /\ ws_waiting' = g.ws_waiting
    /\ clients_used' = Append(clients_used, g.client[1])
    /\ UNCHANGED <<ws_open, n_connections>>

\* GET /generate_video/{job_id}/status: the client is taken and asked for
\* the status of the job.
StatusRequest ==
    \E prompt_id \in PromptIds, q_ok \in BOOLEAN, h_ok \in BOOLEAN :
        LET g == GetComfyuiClient(comfyui_client, n_clients, ws_waiting, pending_tasks)
            r == GetStatus(g.tasks, prompt_id, srv, q_ok, h_ok, workflow_file, now)
        IN /\ TakeClient(g)
           /\ pending_tasks' = r.tasks
           /\ n_calls' = n_calls + 1
           /\ last_call' = [id |-> prompt_id,
                            tracked_before |-> prompt_id \in DOMAIN g.tasks,
                            srv_before |-> srv[prompt_id],
                            q_ok |-> q_ok, h_ok |-> h_ok,
                            result |-> r.result]
           /\ origin' = [origin EXCEPT ![prompt_id] =
                           IF prompt_id \in DOMAIN r.tasks /\ prompt_id \notin DOMAIN g.tasks
                           THEN "status_" \o r.result.status ELSE @]
           /\ UNCHANGED <<srv, workflow_file, now, n_events, evented, last_event>>
           /\ UNCHANGED <<n_requests, last_request, fn_call, configVars, feed, req>>
           /\ UNCHANGED <<audioVars, videoVars, cloudVars>>

\* POST /generate_video: the client is taken and generate_video submits the
\* job.
GenerateRequest ==
    \E prompt_id \in PromptIds, has_prompt_id \in BOOLEAN :
        LET g == GetComfyuiClient(comfyui_client, n_clients, ws_waiting, pending_tasks) IN
        /\ srv[prompt_id].where = "absent"
        /\ workflow_file = "ok"
        /\ TakeClient(g)
        /\ srv' = [srv EXCEPT ![prompt_id] = SrvPending]
        /\ pending_tasks' = IF has_prompt_id
                            THEN GenerateVideoTasks(g.tasks, prompt_id, workflow_file, "a prompt")
                            ELSE g.tasks
        /\ origin' = [origin EXCEPT ![prompt_id] =
                         IF prompt_id \in DOMAIN pending_tasks' /\ prompt_id \notin DOMAIN g.tasks
                         THEN "generate_video" ELSE @]
        /\ UNCHANGED <<workflow_file, now, n_events, evented, last_event>>
        /\ UNCHANGED <<n_calls, last_call, n_requests, last_request, fn_call, configVars, feed, req>>
        /\ UNCHANGED <<audioVars, videoVars, cloudVars>>

\* run_forever of a started event-feed thread opens its connection.
WsConnects ==
    /\ ws_waiting > 0
    /\ ws_waiting' = ws_waiting - 1
    /\ ws_open' = ws_open + 1
    /\ n_connections' = n_connections + 1
    /\ UNCHANGED <<comfyui_client, n_clients, clients_used>>
    /\ UNCHANGED <<n_calls, last_call, n_requests, last_request, fn_call, configVars, feed, req>>
    /\ UNCHANGED <<audioVars, comfyVars, videoVars, cloudVars>>

\* run_forever cannot connect: it returns and the thread ends.
WsFails ==
    /\ ws_waiting > 0
    /\ ws_waiting' = ws_waiting - 1
    /\ UNCHANGED <<comfyui_client, n_clients, ws_open, n_connections, clients_used>>
    /\ UNCHANGED <<n_calls, last_call, n_requests, last_request, fn_call, configVars, feed, req>>
    /\ UNCHANGED <<audioVars, comfyVars, videoVars, cloudVars>>

\* An open event-feed connection closes: run_forever returns and the thread
\* ends.
WsCloses ==
    /\ ws_open > 0
    /\ ws_open' = ws_open - 1
    /\ UNCHANGED <<comfyui_client, n_clients, ws_waiting, n_connections, clients_used>>
    /\ UNCHANGED <<n_calls, last_call, n_requests, last_request, fn_call, configVars, feed, req>>
    /\ UNCHANGED <<audioVars, comfyVars, videoVars, cloudVars>>

\* Push events arrive over an open connection.
WsExecutionStart == ws_open > 0 /\ OnExecutionStart

\* Requests in one process, the event-feed thread and the render server.
ClientNext ==
    \/ StatusRequest
    \/ GenerateRequest
    \/ WsConnects
    \/ WsFails
    \/ WsCloses
    \/ WsExecutionStart
    \/ ServerStarts

SpecClient == Init /\ [][ClientNext]_vars

\* ------------------------------------------------------------------------
\* The event-listener thread inside _handle_execution_start, statement by
\* statement, next to generate_video on a worker thread
\* ------------------------------------------------------------------------
ListenerFrame ==
    /\ UNCHANGED <<srv, workflow_file, now, last_event>>
    /\ UNCHANGED <<n_calls, last_call, n_requests, last_request, fn_call, configVars, clientVars, req>>
    /\ UNCHANGED <<audioVars, videoVars, cloudVars>>

\* An execution_start message of a prompt the server is running arrives;
\* _initialize_task_tracking reads the template.
ListenerStartLoad ==
    \E prompt_id \in PromptIds :
        /\ feed.pc = "idle"
        /\ n_events < MaxEvents
        /\ srv[prompt_id].where = "running"
        /\ n_events' = n_events + 1
        /\ feed' = [pc |-> "init_check", id |-> prompt_id, template |-> workflow_file]
        /\ UNCHANGED <<pending_tasks, evented, origin>>
        /\ ListenerFrame

\* _initialize_task_tracking: `if prompt_id not in self.pending_tasks`.
ListenerInitCheck ==
    /\ feed.pc = "init_check"
    /\ feed' = [feed EXCEPT !.pc = IF feed.id \notin DOMAIN pending_tasks
                                   THEN "init_create" ELSE "set_running"]
    /\ UNCHANGED <<pending_tasks, n_events, evented, origin>>
    /\ ListenerFrame

\* _initialize_task_tracking: `self.pending_tasks[prompt_id] = {...}`.
ListenerInitCreate ==
    /\ feed.pc = "init_create"
    /\ pending_tasks' = Put(pending_tasks, feed.id,
                            InitializeTaskTracking(<<>>, feed.id, feed.template)[feed.id])
    /\ origin' = [origin EXCEPT ![feed.id] = "event"]
    /\ feed' = [feed EXCEPT !.pc = "set_running"]
    /\ UNCHANGED <<n_events, evented>>
    /\ ListenerFrame

\* _handle_execution_start after _initialize_task_tracking: the status, the
\* start timestamp and the start time are written to the entry.
ListenerSetRunning ==
    /\ feed.pc = "set_running"
    /\ feed.id \in DOMAIN pending_tasks
    /\ pending_tasks' = HandleExecutionStart(pending_tasks, feed.id, Some(StartTs),
                                             feed.template, now)
    /\ evented' = evented \cup {feed.id}
    /\ feed' = FeedIdle
    /\ UNCHANGED <<n_events, origin>>
    /\ ListenerFrame

SubmitNext ==
    \/ ThreadQueuesPrompt
    \/ ThreadInitLoad
    \/ ThreadInitCheck
    \/ ThreadInitCreate
    \/ ThreadAfterInit
    \/ ThreadReturns
    \/ ServerStarts
    \/ ListenerStartLoad
    \/ ListenerInitCheck
    \/ ListenerInitCreate
    \/ ListenerSetRunning
    \/ Tick

SpecSubmit == Init /\ [][SubmitNext]_vars

\* Node ids an executing event may carry: the handler takes any id, in the
\* template or not.
EventNodeIds == WorkflowNodeIds \cup {"201", "202"}

OnExecutingAny == ExecutingEvent(MaxNodeEvents, EventNodeIds)

NodeStart == ExecutionStartEvent(MaxNodeEvents)

\* executing events of tracked jobs, with any node id.
NodeCountNext ==
    \/ GenerateVideo
    \/ WorkflowFileChanges
    \/ NodeStart
    \/ OnExecutingAny

SpecNodeCount == Init /\ [][NodeCountNext]_vars

\* Progress events of jobs submitted through /generate_video.
ProgressNext ==
    \/ GenerateVideo
    \/ OnExecutionStart
    \/ OnProgressSteps

SpecProgress == Init /\ [][ProgressNext]_vars

\* The status socket of one job, with the same push events and server.
VideoNext ==
    \/ FeedExecutionStart
    \/ FeedExecutionCached
    \/ FeedExecuting
    \/ FeedProgress
    \/ FeedExecuted
    \/ FeedExecutionError
    \/ ServerQueues
    \/ ServerStarts
    \/ ServerFinishes
    \/ GenerateVideo
    \/ VideoConnect
    \/ VideoPoll
    \/ VideoReceive
    \/ VideoReceiveDisconnect
    \/ VideoClientGone

SpecVideo == Init /\ [][VideoNext]_vars

\* The handler keeps running; the client and the server are under no
\* obligation to act.
FairSpecVideo == SpecVideo /\ WF_vars(VideoConnect) /\ WF_vars(VideoPoll)
                           /\ WF_vars(VideoReceiveDisconnect)

CloudNext ==
    \/ GenerateVideoFromImage
    \/ OperationFinishes
    \/ WorkerPoll
    \/ WorkerDownload
    \/ WorkerWrite
    \/ CheckCall

SpecCloud == InitCloud /\ [][CloudNext]_vars

\* The worker thread keeps running: its loop turns again, and a turn either
\* sees the operation done or has a call fail.  The remote service and the
\* request handlers are under no obligation.
FairSpecCloud == SpecCloud /\ WF_vars(WorkerPoll) /\ WF_vars(WorkerDownload)
                           /\ WF_vars(WorkerWrite)

\* The speech bridge and the /ws/audio handler of one connection.
AudioNext ==
    \/ RecogOpen
    \/ GenStep
    \/ RecogResponse
    \/ RecogStreamEnd
    \/ RecogStreamError
    \/ RecogFinally
    \/ ForwardStep
    \/ AudioReceive
    \/ AudioDisconnect
    \/ AudioFinallyPut
    \/ AudioAwaitRecog
    \/ AudioAwaitForward

SpecAudio == Init /\ [][AudioNext]_vars

\* The threads, the tasks and the session keep running; the client and the
\* session's failures are under no obligation.
AudioFairness ==
    /\ WF_vars(RecogOpen)
    /\ WF_vars(GenStep)
    /\ WF_vars(RecogStreamEnd)
    /\ WF_vars(RecogFinally)
    /\ WF_vars(ForwardStep)
    /\ WF_vars(AudioFinallyPut)
    /\ WF_vars(AudioAwaitRecog)
    /\ WF_vars(AudioAwaitForward)

FairSpecAudio == SpecAudio /\ AudioFairness

\* ------------------------------------------------------------------------
\* Properties of the speech bridge and of /ws/audio
\* ------------------------------------------------------------------------
RECURSIVE CountOf(_, _)
CountOf(seq, x) ==
    IF seq = <<>> THEN 0
    ELSE (IF seq[1] = x THEN 1 ELSE 0) + CountOf(Tail(seq), x)

InputSentinelPut == CountOf(audio_put, NoneChunk) > 0

\* C1: once an end-of-stream sentinel is on the input queue, exactly one
\* terminating event (None, True) is eventually put on the output queue and
\* it stays the last event put there, in every run of the bridge.
C1_SentinelPropagates ==
    InputSentinelPut ~> [](/\ CountOf(result_put, Sentinel) = 1
                           /\ result_put[Len(result_put)] = Sentinel)

\* C2: when the recognition session has failed, at any point and also when
\* the streaming call is opened, the bridge ends with the synthetic error
\* transcript followed by the terminating sentinel on the output queue.
C2_FailureSurfaced ==
    (RecogEnded /\ recog_failed) =>
        /\ Len(result_put) >= 2
        /\ result_put[Len(result_put) - 1] = ErrorTranscript
        /\ result_put[Len(result_put)] = Sentinel

\* C3: on every exit path of the /ws/audio handler the handler eventually
\* returns, with the end-of-stream sentinel enqueued and with the recognizer
\* task and the forwarding task both finished.
C3_HandlerReturnsClean ==
    (h_pc = "finally") ~> (/\ h_pc = "returned"
                           /\ InputSentinelPut
                           /\ RecogEnded
                           /\ fwd_pc = "done")

\* ------------------------------------------------------------------------
\* Properties of /ws/video/{job_id}
\* ------------------------------------------------------------------------
StatusFrames == SelectSeq(v_frames, LAMBDA f : f.type = "status")

DoneSent == \E i \in 1..Len(v_frames) : v_frames[i].type = "done"

\* C4: once a get_status of the handler has reported completed or error, at
\* connect time or at a later poll, a frame of type "done" is eventually sent
\* and the socket closed, for as long as the client stays connected and also
\* when the client never sends a message.  Runs that end because the loop
\* has used up MaxPolls turns are left aside.
PollsUsedUp == v_pc = "sleep" /\ v_polls = MaxPolls

C4_DoneEventuallySent ==
    [](v_saw_terminal => <>(v_gone \/ PollsUsedUp \/ (DoneSent /\ v_pc = "closed")))

\* C5: no two consecutive status frames carry the same (status, progress)
\* pair: every status frame after the initial one differs from the status
\* frame sent before it.
C5_StatusFramesDiffer ==
    \A i \in 1..(Len(StatusFrames) - 1) :
        <<StatusFrames[i].status, StatusFrames[i].progress>>
            # <<StatusFrames[i + 1].status, StatusFrames[i + 1].progress>>

\* Two status frames were sent after the initial one.
C5_Witness == Len(StatusFrames) >= 3

\* ------------------------------------------------------------------------
\* Properties of get_status and of the job lifecycle
\* ------------------------------------------------------------------------
CallMade == last_call.id # NoPromptId

\* C6: for a prompt id first seen by get_status in the pending queue (never
\* tracked before, no push event handled for it), get_status reports queued
\* with progress 0 and no elapsed time while the id is pending, running once
\* the id is in the running queue, and completed with progress 100 and the
\* extracted video descriptor once the id is in history with its video output.
C6_StatusFollowsServer ==
    (CallMade /\ origin[last_call.id] = "status_queued" /\ last_call.id \notin evented) =>
        LET r == last_call.result
            job == last_call.srv_before
        IN /\ job.where = "pending" =>
                 /\ r.status = "queued"
                 /\ Get(r, "progress", -1) = 0
                 /\ Get(r, "elapsed_time", None) = None
           /\ job.where = "running" => r.status = "running"
           /\ (job.where = "history" /\ ExtractVideoInfo(job.outputs) # None) =>
                 /\ r.status = "completed"
                 /\ Get(r, "progress", -1) = 100
                 /\ Get(r, "video", None) = ExtractVideoInfo(job.outputs)

\* The resolution the claim C7 describes, from three facts about the id.
Resolution(in_running, in_pending, in_history, video_info) ==
    IF in_running THEN [status |-> "running", progress |-> 0, video |-> None]
    ELSE IF in_pending THEN [status |-> "queued", progress |-> 0, video |-> None]
    ELSE IF in_history /\ video_info # None
         THEN [status |-> "completed", progress |-> 100, video |-> video_info]
    ELSE IF in_history THEN [status |-> "running", progress |-> 0, video |-> None]
    ELSE [status |-> "not_found", progress |-> 0, video |-> None]

Resolved(r) ==
    [status |-> r.status, progress |-> Get(r, "progress", 0), video |-> Get(r, "video", None)]

\* C7 as stated: get_status for an id absent from the job map resolves by the
\* server's running queue, then its pending queue, then its history (with or
\* without the video output), and reports not_found only when the id is in
\* none of them.
C7_ResolvesByServerState ==
    (CallMade /\ ~last_call.tracked_before) =>
        LET job == last_call.srv_before IN
        Resolved(last_call.result)
            = Resolution(job.where = "running", job.where = "pending",
                         job.where = "history", ExtractVideoInfo(job.outputs))

\* C7 amended: the resolution runs over the queue and the history as
\* get_queue and get_history returned them, both empty when their request
\* failed; not_found is reported exactly when the id is in none of the
\* returned lists.
C7_ResolvesByFetchedState ==
    (CallMade /\ ~last_call.tracked_before) =>
        LET job == last_call.srv_before IN
        Resolved(last_call.result)
            = Resolution(last_call.q_ok /\ job.where = "running",
                         last_call.q_ok /\ job.where = "pending",
                         last_call.h_ok /\ job.where = "history",
                         ExtractVideoInfo(job.outputs))

\* An untracked id was resolved through history to completed.
C7_Witness ==
    /\ CallMade
    /\ ~last_call.tracked_before
    /\ last_call.srv_before.where = "history"
    /\ last_call.result.status = "completed"

\* C8: completed and error are terminal: once a job's in-memory status is
\* completed or error, no later step changes that status.
C8_TerminalStatusKept ==
    [][\A id \in DOMAIN pending_tasks :
          pending_tasks[id].status \in {"completed", "error"}
              => pending_tasks'[id].status = pending_tasks[id].status]_vars

\* ------------------------------------------------------------------------
\* Properties of the cloud video jobs
\* ------------------------------------------------------------------------
\* C9: for a tracked job whose output file is not on disk,
\* check_for_video_completion re-queries the operation and answers COMPLETED
\* when the operation is done and IN_PROGRESS otherwise.
C9_TrackedJobIsQueried ==
    \A i \in 1..Len(checks) :
        (checks[i].tracked /\ ~checks[i].file_existed /\ checks[i].rpc_ok) =>
            checks[i].result = IF checks[i].remote_done THEN "COMPLETED" ELSE "IN_PROGRESS"

\* C10: whenever generated_videos/<id>.mp4 exists, check_for_video_completion
\* answers COMPLETED, whatever the job map holds, and leaves the job map
\* unchanged; a repeated call answers the same.
C10_FileMeansCompleted ==
    /\ \A i \in 1..Len(checks) :
          checks[i].file_existed =>
              (checks[i].result = "COMPLETED" /\ checks[i].map_unchanged)
    /\ \A i, j \in 1..Len(checks) :
          (checks[i].id = checks[j].id /\ checks[i].file_existed /\ checks[j].file_existed)
              => checks[i].result = checks[j].result

\* The call was repeated for an id whose file exists and that has no job entry.
C10_Witness ==
    /\ Len(checks) >= 2
    /\ checks[1].id = checks[2].id
    /\ checks[1].file_existed /\ checks[2].file_existed
    /\ ~checks[1].tracked

\* A job whose worker has ended is COMPLETED with its file path and its
\* file written, or ERROR with the failure text.
WorkerOutcomeRecorded(operation_id) ==
    LET entry == job_statuses[operation_id] IN
    \/ /\ entry.status = "COMPLETED"
       /\ entry.file_path = "generated_videos/" \o operation_id \o ".mp4"
       /\ disk[operation_id] = "complete"
    \/ /\ entry.status = "ERROR"
       /\ Get(entry, "error", NoneStr) # NoneStr

\* C11: a job recorded as IN_PROGRESS is eventually set by its worker to
\* COMPLETED with a file path or to ERROR with the failure text, and no job
\* is left IN_PROGRESS by a worker that has ended.
C11_WorkerSettlesJob ==
    /\ [](\A id \in OperationIds :
            worker[id].pc = "ended" => WorkerOutcomeRecorded(id))
    /\ \A id \in OperationIds :
          (id \in DOMAIN job_statuses) ~>
              (worker[id].pc = "ended" /\ WorkerOutcomeRecorded(id))

\* One worker has ended with the file saved and the other with a failure.
C11_Witness ==
    /\ DOMAIN job_statuses = OperationIds
    /\ \A id \in OperationIds : worker[id].pc = "ended"
    /\ \E a, b \in OperationIds :
          /\ job_statuses[a].status = "COMPLETED"
          /\ job_statuses[b].status = "ERROR"

\* ------------------------------------------------------------------------
\* Properties of the queue cancellation
\* ------------------------------------------------------------------------
CancelServed == last_request.endpoint = "cancel"

\* C12: clear_queue returns true when the pending queue is empty, when the
\* bulk delete succeeds, or when the bulk delete fails and the fallback clear
\* succeeds; it returns false only when the pending queue is non-empty and
\* both the bulk delete and the fallback fail.
C12_ClearQueueResult ==
    CancelServed =>
        /\ last_request.pending_empty => last_request.cleared
        /\ last_request.delete_ok => last_request.cleared
        /\ (~last_request.delete_ok /\ last_request.clear_ok) => last_request.cleared
        /\ ~last_request.cleared =>
              (~last_request.pending_empty /\ ~last_request.delete_ok /\ ~last_request.clear_ok)

\* The bulk delete failed on a non-empty pending queue and the fallback
\* cleared it.
C12_Witness ==
    /\ CancelServed
    /\ last_request.q_ok /\ ~last_request.pending_empty
    /\ ~last_request.delete_ok /\ last_request.clear_ok
    /\ last_request.cleared
    /\ \A id \in PromptIds : srv[id].where # "pending"

\* C13: when the render server cannot be reached, so that the interrupt
\* request and every queue request fail, POST /comfyui/queue/cancel answers
\* 500 and reports no successful cancellation.
C13_UnreachableServerIs500 ==
    (/\ CancelServed
     /\ ~last_request.interrupt_ok /\ ~last_request.q_ok
     /\ ~last_request.delete_ok /\ ~last_request.clear_ok) =>
        (last_request.response.code = 500 /\ ~last_request.response.success)

\* ------------------------------------------------------------------------
\* Properties of the download endpoint
\* ------------------------------------------------------------------------
DownloadServed == last_request.endpoint = "download"

\* C14 as stated: the download answers 404 when the job id is unknown and
\* also when the job exists but is not completed; video bytes are returned
\* only for a completed job.
C14_NotCompletedIs404 ==
    DownloadServed =>
        /\ last_request.status # "completed" => last_request.response.code = 404
        /\ last_request.response.content # NoBytes => last_request.status = "completed"

\* C14 amended: the download answers 404 when the job id is unknown, 400
\* when the job exists but is not completed, and for a completed job 200
\* with the video bytes, or 404 when no bytes could be fetched; video bytes
\* are returned only for a completed job.
C14_DownloadGate ==
    DownloadServed =>
        /\ last_request.status = "not_found" => last_request.response.code = 404
        /\ last_request.status \notin {"not_found", "completed"}
              => last_request.response.code = 400
        /\ last_request.status = "completed" => last_request.response.code \in {200, 404}
        /\ last_request.response.code = 200 <=> last_request.response.content # NoBytes
        /\ last_request.response.content # NoBytes => last_request.status = "completed"

\* The second request handed out the video of a tracked, completed job.
C14_Witness ==
    /\ DownloadServed
    /\ n_requests = 2
    /\ last_request.tracked
    /\ last_request.response.code = 200
    /\ last_request.response.content = "mp4bytes"

\* C15: when get_status reports not_found as the status socket is opened,
\* the handler sends one frame of type "error" to the connected client, sends
\* no status and no done frame, and closes the socket.
C15_UnknownJobGetsErrorFrame ==
    v_initial = "not_found" =>
        /\ v_pc = "closed"
        /\ \A i \in 1..Len(v_frames) : v_frames[i].type = "error"
        /\ Len(v_frames) <= 1
        /\ ~v_gone => v_frames = <<[type |-> "error"]>>

\* The socket was opened for an unknown job by a client that stayed.
C15_Witness ==
    /\ v_initial = "not_found"
    /\ ~v_gone
    /\ v_frames = <<[type |-> "error"]>>

\* ------------------------------------------------------------------------
\* Properties of the image endpoints
\* ------------------------------------------------------------------------
UploadServed == last_request.endpoint \in {"initial-questions", "test_prompt", "generate_video"}

NothingDone(effects) ==
    /\ effects.llm_calls = 0
    /\ effects.uploads = 0
    /\ effects.submissions = 0
    /\ effects.job_map_unchanged

\* C16: on every image endpoint an upload of a content type outside the
\* allowed five is answered 415 and an empty body 400, before any call to
\* the hosted model or the render server and with no job created; an allowed
\* type with a non-empty body passes the gate.
C16_UploadGate ==
    UploadServed =>
        /\ last_request.content_type \notin AllowedTypes =>
              (last_request.response.code = 415 /\ NothingDone(last_request.effects))
        /\ (last_request.content_type \in AllowedTypes /\ last_request.content = "") =>
              (last_request.response.code = 400 /\ NothingDone(last_request.effects))
        /\ (last_request.content_type \in AllowedTypes /\ last_request.content # "") =>
              (last_request.response.code \notin {400, 415} /\ last_request.effects.llm_calls = 1)

\* An empty image/gif upload was turned away from /generate_video after an
\* earlier request had created a job.
C16_Witness ==
    /\ last_request.endpoint = "generate_video"
    /\ last_request.content_type = "image/gif"
    /\ last_request.content = ""
    /\ last_request.response.code = 415
    /\ DOMAIN pending_tasks # {}

\* ------------------------------------------------------------------------
\* Properties of /suggestions and of the metrics proxy
\* ------------------------------------------------------------------------
\* out is text with the whitespace at its two ends taken away.
IsTrimOf(out, text) ==
    \E a \in 0..Len(text), b \in 0..Len(text) :
        /\ a + b <= Len(text)
        /\ out = SubSeq(text, a + 1, Len(text) - b)
        /\ \A k \in 1..a : text[k] \in Whitespace
        /\ \A k \in (Len(text) - b + 1)..Len(text) : text[k] \in Whitespace
        /\ out # <<>> => (out[1] \notin Whitespace /\ out[Len(out)] \notin Whitespace)

\* C17: when the model response parses to a suggestions list L, the list
\* returned is the first min(len(L), 3) items of L in the same order, each
\* trimmed of surrounding whitespace, and never longer than 3.
C17_FirstThreeTrimmed ==
    (last_request.endpoint = "suggestions" /\ last_request.kind = "json") =>
        LET L == last_request.raw
            out == last_request.response.suggestions
        IN /\ last_request.response.code = 200
           /\ Len(out) = (IF Len(L) < 3 THEN Len(L) ELSE 3)
           /\ \A i \in 1..Len(out) : IsTrimOf(out[i], L[i])

\* A list of four, with items that carry whitespace, came back as three.
C17_Witness ==
    /\ last_request.endpoint = "suggestions"
    /\ last_request.kind = "json"
    /\ Len(last_request.raw) = 4
    /\ last_request.raw[2] = <<" ", "a", " ", "b", "\n">>
    /\ last_request.response.suggestions = <<<<"a">>, <<"a", " ", "b">>, <<>>>>

\* C18: each metrics endpoint answers 504 on an upstream timeout, 503 on an
\* upstream connection failure, 502 on any upstream status other than 200,
\* and passes a successful JSON response through; the 502 is not turned
\* into another code.
C18_MetricsMapping ==
    last_request.endpoint = "metrics" =>
        LET up == last_request.upstream
            r == last_request.response
        IN /\ up.kind \in {"timeout", "connect_timeout"} => r.code = 504
           /\ up.kind = "connect_error" => r.code = 503
           /\ (up.kind = "response" /\ up.status # 200) => r.code = 502
           /\ (up.kind = "response" /\ up.status = 200 /\ up.json) =>
                 (r.code = 200 /\ r.body = up.body)

\* Every endpoint has met a bad upstream status; here /metrics/all did.
C18_Witness ==
    /\ last_request.endpoint = "metrics"
    /\ last_request.path = "all"
    /\ last_request.upstream.kind = "response"
    /\ last_request.upstream.status = 404
    /\ last_request.response.code = 502

\* ------------------------------------------------------------------------
\* Order of the transcript frames
\* ------------------------------------------------------------------------
\* The events of the speech bridge other than the sentinel, in the order put.
TranscriptEvents == SelectSeq(result_put, LAMBDA ev : ev # Sentinel)

\* C19: the transcript frames sent to the client are, in order and without
\* duplication, a prefix of the non-sentinel events the speech bridge put on
\* the result queue; no frame is sent for the sentinel.
C19_FramesArePrefixOfEvents ==
    /\ Len(audio_frames) <= Len(TranscriptEvents)
    /\ \A i \in 1..Len(audio_frames) :
          audio_frames[i] = [type |-> "transcript",
                             final |-> TranscriptEvents[i][2],
                             text |-> TranscriptEvents[i][1]]

\* Two transcripts were forwarded and the sentinel was then taken without a
\* frame, the client still being there.
C19_Witness ==
    /\ Len(audio_frames) = 2
    /\ audio_frames[1].final # audio_frames[2].final
    /\ fwd_pc = "done"
    /\ ~client_gone
    /\ result_rd = 3
    /\ result_put[3] = Sentinel

\* ------------------------------------------------------------------------
\* Progress percentage
\* ------------------------------------------------------------------------
\* The latest push event was a progress event of a tracked job.
ProgressHandled == last_event.type = "progress" /\ last_event.tracked

StoredProgress == pending_tasks[last_event.prompt_id].progress

Abs(n) == IF n < 0 THEN 0 - n ELSE n

\* r is an integer nearest to 100 * value / max_value (either one at a tie).
IsRounded(r, value, max_value) == 2 * Abs(100 * value - r * max_value) <= max_value

\* r is 100 * value / max_value without its fraction.
IsTruncated(r, value, max_value) ==
    /\ r * value >= 0
    /\ Abs(r) * max_value <= 100 * Abs(value)
    /\ 100 * Abs(value) < (Abs(r) + 1) * max_value

\* C20 as stated: after a progress event of a tracked job the stored progress
\* is round(100 * value / max) when max > 0, and 0 when max <= 0.
C20_ProgressIsRounded ==
    ProgressHandled =>
        IF last_event.max > 0
        THEN IsRounded(StoredProgress, last_event.value, last_event.max)
        ELSE StoredProgress = 0

\* C20, amended: after a progress event of a tracked job the stored progress
\* is 100 * value / max with the fraction dropped (towards zero) when
\* max > 0, and 0 when max <= 0.
C20_ProgressIsTruncated ==
    ProgressHandled =>
        IF last_event.max > 0
        THEN IsTruncated(StoredProgress, last_event.value, last_event.max)
        ELSE StoredProgress = 0

\* Step 2 of 3 of a tracked job was stored as 66.
C20_Witness ==
    /\ ProgressHandled
    /\ last_event.value = 2
    /\ last_event.max = 3
    /\ StoredProgress = 66

\* ------------------------------------------------------------------------
\* Elapsed-time formatting
\* ------------------------------------------------------------------------
ElapsedFormatted == fn_call.fn = "_format_elapsed_time" /\ fn_call.returned

Part(n, unit) == [n |-> n, unit |-> unit]

\* The part for n of a unit, left out when n = 0.
PartIfPositive(n, unit) == IF n > 0 THEN <<Part(n, unit)>> ELSE <<>>

\* C21: for a whole number of seconds e >= 0, _format_elapsed_time gives
\* "{e}s" below a minute, "{m}m {s}s" below an hour with the seconds left
\* out when 0, and from an hour on "{h}h" followed by the minutes and the
\* seconds that are not 0, where h, m, s are the hours, minutes and seconds
\* of e; 45, 65, 120, 3605, 3660 and 7325 give the strings of the examples.
C21_ElapsedTimeFormat ==
    ElapsedFormatted =>
        LET e == fn_call.arg
            h == e \div 3600
            m == (e - 3600 * h) \div 60
            sec == e - 3600 * h - 60 * m
        IN /\ e < 60 => fn_call.ret = <<Part(e, "s")>>
           /\ (60 <= e /\ e < 3600) =>
                  fn_call.ret = <<Part(m, "m")>> \o PartIfPositive(sec, "s")
           /\ e >= 3600 =>
                  fn_call.ret = <<Part(h, "h")>> \o PartIfPositive(m, "m")
                                               \o PartIfPositive(sec, "s")
           /\ e = 45 => fn_call.ret = <<Part(45, "s")>>
           /\ e = 65 => fn_call.ret = <<Part(1, "m"), Part(5, "s")>>
           /\ e = 120 => fn_call.ret = <<Part(2, "m")>>
           /\ e = 3605 => fn_call.ret = <<Part(1, "h"), Part(5, "s")>>
           /\ e = 3660 => fn_call.ret = <<Part(1, "h"), Part(1, "m")>>
           /\ e = 7325 => fn_call.ret = <<Part(2, "h"), Part(2, "m"), Part(5, "s")>>

\* 3660 seconds were formatted as "1h 1m".
C21_Witness ==
    /\ ElapsedFormatted
    /\ fn_call.arg = 3660
    /\ fn_call.ret = <<Part(1, "h"), Part(1, "m")>>

\* ------------------------------------------------------------------------
\* Duration from the history messages
\* ------------------------------------------------------------------------
DurationExtracted ==
    fn_call.fn = "_extract_duration_from_history" /\ fn_call.returned

\* The timestamps the messages of one type carry.
TimestampsOf(messages, msg_type) ==
    {messages[i].timestamp[1] : i \in {j \in 1..Len(messages) :
                                          /\ messages[j].type = msg_type
                                          /\ messages[j].timestamp # None}}

\* C22: _extract_duration_from_history returns (end - start) / 1000 seconds
\* whenever the messages hold an execution_start with a timestamp and an
\* execution_success with a timestamp, for every pair of millisecond
\* timestamps including 0, and returns absent exactly when a marker is missing.
C22_DurationFromMarkers ==
    DurationExtracted =>
        LET starts == TimestampsOf(fn_call.arg, "execution_start")
            ends == TimestampsOf(fn_call.arg, "execution_success")
        IN IF starts # {} /\ ends # {}
           THEN \E start \in starts, end \in ends :
                    fn_call.ret = Some([thousandths |-> end - start])
           ELSE fn_call.ret = None

\* ------------------------------------------------------------------------
\* JSON extraction
\* ------------------------------------------------------------------------
JsonExtracted == fn_call.fn = "extract_json" /\ fn_call.returned

\* The text from position i to position j runs from the first opening brace
\* of the text to its last closing brace.
IsOuterSpan(text, i, j) ==
    /\ i < j
    /\ text[i] = "{"
    /\ text[j] = "}"
    /\ \A n \in 1..(i - 1) : text[n] # "{"
    /\ \A n \in (j + 1)..Len(text) : text[n] # "}"

\* C23: extract_json returns the parsed value of the whole text when that is
\* valid JSON; otherwise it parses the span from the first opening brace to
\* the last closing brace; it fails with the invalid-format error when the
\* text holds no such span.
C23_ExtractJson ==
    JsonExtracted =>
        LET text == fn_call.arg
            spans == {sp \in (1..Len(text)) \X (1..Len(text)) :
                         IsOuterSpan(text, sp[1], sp[2])}
        IN IF JsonLoads(text).ok
           THEN fn_call.ret = Returned(JsonLoads(text).value)
           ELSE IF spans = {}
           THEN fn_call.ret = Raised("ValueError: Model tidak mengembalikan JSON yang valid.")
           ELSE \A sp \in spans :
                   LET inner == JsonLoads(SubSeq(text, sp[1], sp[2])) IN
                   IF inner.ok
                   THEN fn_call.ret = Returned(inner.value)
                   ELSE fn_call.ret.kind = "raises"

\* An object with a nested object was recovered from behind a letter of
\* prose.
C23_Witness ==
    /\ JsonExtracted
    /\ fn_call.arg = <<"a", "{", "k", "{", "}", "}">>
    /\ fn_call.ret = Returned([kind |-> "object", digits |-> 0,
                               members |-> <<[kind |-> "object", digits |-> 0,
                                              members |-> <<>>]>>])

\* ------------------------------------------------------------------------
\* The configuration singleton
\* ------------------------------------------------------------------------
\* The API key is unset, or consists of white space only.
KeyBlank(env) ==
    \/ env["GEMINI_API_KEY"] = None
    \/ \A i \in 1..Len(env["GEMINI_API_KEY"][1]) :
          env["GEMINI_API_KEY"][1][i] \in Whitespace

\* C24: once a get_config call has succeeded, every later call returns the
\* same record, whose fields stay as they are whatever happens to the
\* environment; a call that reads an environment whose API key is absent or
\* blank after trimming fails with the configuration error and caches nothing.
C24_ConfigSingleton ==
    [][/\ config_cache # None => config_cache' = config_cache
       /\ n_config' # n_config =>
             IF config_cache # None
             THEN config_ret' = ConfigReturned(config_cache)
             ELSE IF KeyBlank(environ)
                  THEN config_ret' = ConfigRaised(ConfigError) /\ config_cache' = None
                  ELSE config_ret'.kind = "returns" /\ config_cache' = config_ret'.config
      ]_vars

\* A later call returned the cached record although the API key had been
\* unset in the meantime.
C24_Witness ==
    /\ n_config >= 2
    /\ config_cache # None
    /\ environ["GEMINI_API_KEY"] = None
    /\ environ["COMFYUI_INPUT_DIR"] # None
    /\ config_cache[1].COMFYUI_INPUT_DIR = <<>>
    /\ config_ret = ConfigReturned(config_cache)

\* ------------------------------------------------------------------------
\* The prompt test endpoint
\* ------------------------------------------------------------------------
\* C25: POST /generate_video/test_prompt never queues a job: whatever the
\* outcome of the request, the job map and the render server's queue are as
\* before and no upload or submission to the render server is made.
C25_TestPromptQueuesNothing ==
    [][(n_requests' # n_requests /\ last_request'.endpoint = "test_prompt") =>
          /\ pending_tasks' = pending_tasks
          /\ srv' = srv
          /\ last_request'.effects.uploads = 0
          /\ last_request'.effects.submissions = 0
          /\ last_request'.effects.job_map_unchanged
      ]_vars

\* With no job tracked, the test endpoint answered 200 with a prompt and
\* the job map is still empty.
C25_Witness ==
    /\ last_request.endpoint = "test_prompt"
    /\ last_request.response.code = 200
    /\ DOMAIN pending_tasks = {}
    /\ last_request.effects.llm_calls = 1

\* ------------------------------------------------------------------------
\* The job map under threads
\* ------------------------------------------------------------------------
\* C26: whatever the interleaving of the event-listener thread with a
\* request handler that initializes tracking for the same prompt id, a step
\* of the handler never replaces the entry of a job, or changes the status
\* of a job, that the listener has written to.
C26_ListenerStatusKept ==
    [][req' # req =>
          \A id \in evented \cap DOMAIN pending_tasks :
              /\ id \in DOMAIN pending_tasks'
              /\ pending_tasks'[id].status = pending_tasks[id].status
      ]_vars

\* ------------------------------------------------------------------------
\* Node progress
\* ------------------------------------------------------------------------
\* C27: while the push events of a job arrive in execution order, the
\* number of completed nodes that node_progress reports for the job never
\* decreases, also when the template could not be read and the fallback
\* total of 20 with an empty id set is in use.
C27_NodeProgressMonotonic ==
    [][\A id \in DOMAIN pending_tasks :
          /\ id \in DOMAIN pending_tasks'
          /\ NodeProgressOf(pending_tasks[id]) # None =>
                /\ NodeProgressOf(pending_tasks'[id]) # None
                /\ NodeProgressOf(pending_tasks'[id])[1][1] >=
                       NodeProgressOf(pending_tasks[id])[1][1]
      ]_vars

\* ------------------------------------------------------------------------
\* Executing events of untracked jobs
\* ------------------------------------------------------------------------
\* C28: an executing push event with a node id for a prompt id that has no
\* entry in the job map initializes tracking for that id: afterwards the job
\* exists with status running and that node as the current node.
C28_ExecutingInitializesTracking ==
    [][(/\ n_events' # n_events
        /\ last_event'.type = "executing"
        /\ last_event'.prompt_id # NoPromptId
        /\ ~last_event'.tracked) =>
           /\ last_event'.prompt_id \in DOMAIN pending_tasks'
           /\ pending_tasks'[last_event'.prompt_id].status = "running"
           /\ pending_tasks'[last_event'.prompt_id].current_node_id = last_event'.node
      ]_vars

\* ------------------------------------------------------------------------
\* Input side of the speech bridge
\* ------------------------------------------------------------------------
\* The position of the first sentinel on the input queue, or one past its end.
FirstSentinel ==
    IF \E i \in 1..Len(audio_put) : audio_put[i] = NoneChunk
    THEN CHOOSE i \in 1..Len(audio_put) :
             /\ audio_put[i] = NoneChunk
             /\ \A j \in 1..(i - 1) : audio_put[j] # NoneChunk
    ELSE Len(audio_put) + 1

\* The non-empty chunks put before the first sentinel, in queue order.
ChunksToForward ==
    SelectSeq(SubSeq(audio_put, 1, FirstSentinel - 1), LAMBDA c : c # EmptyChunk)

\* C29: the chunks forwarded to the recognition session are, in queue order,
\* the non-empty chunks put on the input queue before the first sentinel:
\* at any moment a prefix of them, and all of them once the generator has
\* drawn the sentinel; empty chunks are skipped and nothing put after the
\* first sentinel is forwarded.
C29_ForwardedChunks ==
    /\ Len(forwarded) <= Len(ChunksToForward)
    /\ forwarded = SubSeq(ChunksToForward, 1, Len(forwarded))
    /\ gen_pc = "stopped" => forwarded = ChunksToForward

\* The generator stopped at the sentinel after forwarding a chunk, and a
\* chunk was put on the queue after the sentinel.
C29_Witness ==
    /\ gen_pc = "stopped"
    /\ forwarded # <<>>
    /\ forwarded = ChunksToForward
    /\ \E i \in (FirstSentinel + 1)..Len(audio_put) : audio_put[i] \in Chunks

\* ------------------------------------------------------------------------
\* Range of the stored progress
\* ------------------------------------------------------------------------
\* C30: in every reachable state every tracked render job has a progress
\* within 0..100, whatever integer value and max the progress events carry.
C30_ProgressInRange ==
    \A id \in DOMAIN pending_tasks : pending_tasks[id].progress \in 0..100

\* ------------------------------------------------------------------------
\* The wall-clock start time of a job
\* ------------------------------------------------------------------------
\* The job has received an execution_start: only that event writes the
\* start timestamp of the server.
StartSeen(id) == pending_tasks[id].start_timestamp # None

\* What get_status reports for a tracked job.
Reported(id) == GetStatus(pending_tasks, id, srv, TRUE, TRUE, workflow_file, now).result

C32_FailuresGiveEmptyResults ==
    [][/\ GetHistory(srv, FALSE) = {}
       /\ GetQueue(srv, FALSE) = [queue_running |-> {}, queue_pending |-> {}]
       /\ (n_calls' # n_calls /\ ~last_call'.q_ok /\ ~last_call'.h_ok) =>
             /\ pending_tasks' = pending_tasks
             /\ ~last_call'.tracked_before =>
                    /\ last_call'.result = [status |-> "not_found"]
                    /\ last_call'.id \notin DOMAIN pending_tasks'
      ]_vars

\* get_status was asked, with both requests failing, for an untracked id
\* that the server holds in its history, and reported not_found.
C32_Witness ==
    /\ CallMade
    /\ ~last_call.q_ok
    /\ ~last_call.h_ok
    /\ ~last_call.tracked_before
    /\ last_call.srv_before.where = "history"
    /\ last_call.result.status = "not_found"

\* ------------------------------------------------------------------------
\* One render-server client per process
\* ------------------------------------------------------------------------
\* C33: across any sequence of requests in one process at most one
\* render-server client is constructed and at most one event-feed connection
\* is opened; every request uses that same client, and a job-map entry
\* created by one request stays in the job map for all later requests: no
\* step removes an entry.
C33_OneClientPerProcess ==
    [][/\ n_clients' <= 1
       /\ n_connections' <= 1
       /\ \A i \in 1..Len(clients_used') : clients_used'[i] = clients_used'[1]
       /\ DOMAIN pending_tasks \subseteq DOMAIN pending_tasks'
      ]_vars

\* Three requests were served by the one client over its one connection,
\* and the latest status request found the job a former request had
\* submitted.
C33_Witness ==
    /\ Len(clients_used) = MaxClientRequests
    /\ n_clients = 1
    /\ n_connections = 1
    /\ CallMade
    /\ last_call.tracked_before
    /\ origin[last_call.id] = "generate_video"

\* ------------------------------------------------------------------------
\* generate_video and the job map
\* ------------------------------------------------------------------------
\* C34: a generate_video whose submission answer carries no prompt id fails
\* and leaves the job map unchanged; when generate_video has succeeded the
\* job map holds an entry for the returned prompt id with the original prompt
\* text, and with status queued and progress 0 unless a push event has
\* advanced the job; and an entry keeps the prompt text it was given.
C34_SubmissionAndJobMap ==
    [][/\ (req.pc = "idle" /\ req'.kind = "generate_video_raises") =>
             pending_tasks' = pending_tasks
       /\ (req'.pc = "done" /\ req'.kind = "generate_video") =>
             /\ req'.id \in DOMAIN pending_tasks'
             /\ pending_tasks'[req'.id].prompt = "a prompt"
             /\ \/ req'.id \in evented'
                \/ /\ pending_tasks'[req'.id].status = "queued"
                   /\ pending_tasks'[req'.id].progress = 0
       /\ \A id \in DOMAIN pending_tasks :
             pending_tasks[id].prompt = "a prompt" =>
                 /\ id \in DOMAIN pending_tasks'
                 /\ pending_tasks'[id].prompt = "a prompt"
      ]_vars

\* ------------------------------------------------------------------------
\* What get_status reports for a completed job
\* ------------------------------------------------------------------------
\* Every answer get_status can give for the id in the current state.
StatusAnswers(id) ==
    {GetStatus(pending_tasks, id, srv, q_ok, h_ok, workflow_file, now).result :
        q_ok \in BOOLEAN, h_ok \in BOOLEAN}

\* C35: whenever get_status reports completed for a job, from the job map or
\* from history, the result carries the video descriptor; no sequence of
\* push events leaves a job completed without one.
C35_CompletedHasVideo ==
    \A id \in PromptIds : \A r \in StatusAnswers(id) :
        r.status = "completed" => Get(r, "video", None) # None

\* C36: whenever get_status reports completed for a job, from the job map
\* after any sequence of push events or from history, it reports progress
\* 100.
C36_CompletedHasFullProgress ==
    \A id \in PromptIds : \A r \in StatusAnswers(id) :
        r.status = "completed" => Get(r, "progress", 0 - 1) = 100

\* C37: for every tracked job the number of completed nodes does not exceed
\* the total node count, after any sequence of executing events and also
\* when the fallback total is in use.
C37_CompletedWithinTotal ==
    \A id \in DOMAIN pending_tasks :
        Cardinality(pending_tasks[id].completed_nodes) <= pending_tasks[id].total_nodes

\* ------------------------------------------------------------------------
\* check_for_video_completion and the file being written
\* ------------------------------------------------------------------------
\* Every answer check_for_video_completion can give for the id in the
\* current state.
CheckAnswers(id) ==
    {CheckForVideoCompletion(job_statuses, disk, op_done, id, rpc_ok).result :
        rpc_ok \in BOOLEAN}

\* C38: check_for_video_completion reports COMPLETED only when the video
\* file of the job has been completely written: never while the background
\* worker is still writing the file, nor for a job whose worker failed and
\* recorded ERROR.
C38_CompletedMeansFileWritten ==
    \A id \in OperationIds :
        "COMPLETED" \in CheckAnswers(id) =>
            /\ disk[id] = "complete"
            /\ worker[id].pc # "write"
            /\ id \in DOMAIN job_statuses => job_statuses[id].status # "ERROR"

\* ------------------------------------------------------------------------
\* /suggestions with nothing to suggest
\* ------------------------------------------------------------------------
\* C39: POST /suggestions answers with a success response only when it
\* carries at least one suggestion: when the JSON of the model has an empty
\* suggestions list, or none, the endpoint answers 500 and not an empty
\* list.
C39_NoEmptySuccess ==
    last_request.endpoint = "suggestions" =>
        /\ last_request.response.code = 200 =>
              Len(last_request.response.suggestions) >= 1
        /\ (last_request.kind \in {"json", "json_no_key"} /\ last_request.raw = <<>>) =>
              last_request.response.code = 500

====
